---- MODULE Spec2Model ----
(***************************************************************************)
(* A model of the ZX16 two-pass assembler (assembler/zx16asm.py): the      *)
(* instruction encoder, the pseudo-instruction expander, the symbol table  *)
(* and the two passes of ZX16Assembler.assemble over a token list.         *)
(*                                                                         *)
(* Python integers are unbounded, so are the integers here.  x >> n is     *)
(* x \div 2^n (both floor), x << n is x * 2^n, and & | on negative numbers *)
(* follow Python's infinite two's complement.                              *)
(***************************************************************************)
EXTENDS Integers, Sequences, FiniteSets, TLC

(***************************************************************************)
(* Bounds of the model.                                                    *)
(***************************************************************************)
\* number of source lines of an assembled program
MaxLines == 3
\* how far beyond the last accepted operand value the encoder's inputs go
EncMargin == 3

(***************************************************************************)
(* Python's integer operators.                                             *)
(***************************************************************************)
RECURSIVE Pow2(_)
Pow2(n) == IF n = 0 THEN 1 ELSE 2 * Pow2(n - 1)

Shl(x, n) == x * Pow2(n)
Shr(x, n) == x \div Pow2(n)

RECURSIVE AndNat(_, _)
AndNat(a, b) ==
    IF a = 0 \/ b = 0 THEN 0
    ELSE (IF a % 2 = 1 /\ b % 2 = 1 THEN 1 ELSE 0) + (2 * AndNat(a \div 2, b \div 2))

RECURSIVE OrNat(_, _)
OrNat(a, b) ==
    IF a = 0 THEN b
    ELSE IF b = 0 THEN a
    ELSE (IF a % 2 = 1 \/ b % 2 = 1 THEN 1 ELSE 0) + 2 * OrNat(a \div 2, b \div 2)

\* a & ~b for a, b >= 0
RECURSIVE AndNotNat(_, _)
AndNotNat(a, b) ==
    IF a = 0 THEN 0
    ELSE IF b = 0 THEN a
    ELSE (IF a % 2 = 1 /\ b % 2 = 0 THEN 1 ELSE 0) + 2 * AndNotNat(a \div 2, b \div 2)

\* ~x
BitNot(x) == -x - 1

\* x & y
BitAnd(x, y) ==
    IF x >= 0 /\ y >= 0 THEN AndNat(x, y)
    ELSE IF x >= 0 THEN AndNotNat(x, BitNot(y))
    ELSE IF y >= 0 THEN AndNotNat(y, BitNot(x))
    ELSE BitNot(OrNat(BitNot(x), BitNot(y)))

\* x | y
BitOr(x, y) ==
    IF x >= 0 /\ y >= 0 THEN OrNat(x, y)
    ELSE IF x >= 0 THEN BitNot(AndNotNat(BitNot(y), x))
    ELSE IF y >= 0 THEN BitNot(AndNotNat(BitNot(x), y))
    ELSE BitNot(AndNat(BitNot(x), BitNot(y)))

Or5(a, b, c, d, e) == BitOr(BitOr(BitOr(BitOr(a, b), c), d), e)

(***************************************************************************)
(* InstructionFormat: the tag in bits [2:0].                               *)
(***************************************************************************)
R_TYPE == 0
I_TYPE == 1
B_TYPE == 2
S_TYPE == 3
L_TYPE == 4
J_TYPE == 5
U_TYPE == 6
SYS_TYPE == 7

(***************************************************************************)
(* ZX16Parser: the encoding tables.                                        *)
(***************************************************************************)
r_type_instructions ==
    [add |-> <<0, 0>>, sub |-> <<1, 0>>, slt |-> <<2, 1>>, sltu |-> <<3, 2>>,
     sll |-> <<4, 3>>, srl |-> <<5, 3>>, sra |-> <<6, 3>>, or |-> <<7, 4>>,
     and |-> <<8, 5>>, xor |-> <<9, 6>>, mv |-> <<10, 7>>, jr |-> <<11, 0>>,
     jalr |-> <<12, 0>>]

i_type_instructions ==
    [addi |-> 0, slti |-> 1, sltui |-> 2, ori |-> 4, andi |-> 5, xori |-> 6, li |-> 7]

shift_instructions == [slli |-> 1, srli |-> 2, srai |-> 4]

b_type_instructions ==
    [beq |-> 0, bne |-> 1, bz |-> 2, bnz |-> 3, blt |-> 4, bge |-> 5, bltu |-> 6, bgeu |-> 7]

s_type_instructions == [sb |-> 0, sw |-> 1]

l_type_instructions == [lb |-> 0, lw |-> 1, lbu |-> 4]

register_map ==
    [x0 |-> 0, x1 |-> 1, x2 |-> 2, x3 |-> 3, x4 |-> 4, x5 |-> 5, x6 |-> 6, x7 |-> 7,
     t0 |-> 0, ra |-> 1, sp |-> 2, s0 |-> 3, s1 |-> 4, t1 |-> 5, a0 |-> 6, a1 |-> 7]

pseudo_instructions ==
    {"li16", "la", "push", "pop", "call", "ret", "inc", "dec", "neg", "not", "clr", "nop"}

(***************************************************************************)
(* ZX16Parser.sign_extend on an integer: every integer comes out in        *)
(* -2^(bits-1) .. 2^(bits-1) - 1.                                          *)
(***************************************************************************)
sign_extend(value, bits) ==
    LET sign_bit == Shl(1, bits - 1)
        mask == Shl(1, bits) - 1
    IN  IF BitAnd(value, sign_bit) # 0 THEN BitOr(value, BitNot(mask))
        ELSE BitAnd(value, mask)

(***************************************************************************)
(* ZX16Assembler.encode_instruction.  The operands are integers: pass 2    *)
(* resolves every symbol name before it calls the encoder.  The result is  *)
(* the word, or the exception the code raises (ok = FALSE, no word).       *)
(***************************************************************************)
Word(w) == [ok |-> TRUE, word |-> w, err |-> ""]
Raise(e) == [ok |-> FALSE, word |-> 0, err |-> e]

EncodeRType(mnemonic, operands) ==
    LET funct4 == r_type_instructions[mnemonic][1]
        func3 == r_type_instructions[mnemonic][2]
    IN  IF mnemonic = "jr"
        THEN IF Len(operands) < 1 THEN Raise("operand count")
             ELSE Word(Or5(Shl(funct4, 12), Shl(0, 9), Shl(operands[1], 6),
                           Shl(func3, 3), R_TYPE))
        ELSE IF Len(operands) < 2 THEN Raise("operand count")
             ELSE Word(Or5(Shl(funct4, 12), Shl(operands[2], 9), Shl(operands[1], 6),
                           Shl(func3, 3), R_TYPE))

EncodeIType(mnemonic, operands) ==
    IF Len(operands) < 2 THEN Raise("operand count")
    ELSE LET func3 == i_type_instructions[mnemonic]
             rd == operands[1]
             imm == sign_extend(operands[2], 7)
         IN  IF imm < -64 \/ imm > 63 THEN Raise("immediate out of range")
             ELSE Word(BitOr(BitOr(BitOr(Shl(BitAnd(imm, 127), 9), Shl(rd, 6)),
                                   Shl(func3, 3)), I_TYPE))

EncodeShiftMasked(mnemonic, operands) ==
    IF Len(operands) < 2 THEN Raise("operand count")
    ELSE LET rd == operands[1]
             shift_amt == operands[2]
             imm7 == BitOr(Shl(shift_instructions[mnemonic], 4), BitAnd(shift_amt, 15))
         IN  Word(BitOr(BitOr(BitOr(Shl(imm7, 9), Shl(rd, 6)), Shl(3, 3)), I_TYPE))

EncodeShift(mnemonic, operands) ==
    IF Len(operands) < 2 THEN Raise("operand count")
    ELSE LET rd == operands[1]
             shift_amt == operands[2]
             shift_type == shift_instructions[mnemonic]
             imm7 == BitOr(Shl(shift_type, 4), BitAnd(shift_amt, 15))
             func3 == 3
         IN  IF shift_amt < 0 \/ shift_amt > 15 THEN Raise("shift amount")
             ELSE Word(BitOr(BitOr(BitOr(Shl(imm7, 9), Shl(rd, 6)), Shl(func3, 3)), I_TYPE))

\* the word of a branch whose operands have been unpacked
BranchWord(mnemonic, rs1, rs2, target, address) ==
    LET func3 == b_type_instructions[mnemonic]
        offset == target - (address + 2)
        imm_high == BitAnd(Shr(offset, 1), 15)
    IN  IF offset < -32 \/ offset > 28 \/ offset % 2 # 0
        THEN Raise("branch offset")
        ELSE Word(Or5(Shl(imm_high, 12), Shl(rs2, 9), Shl(rs1, 6), Shl(func3, 3), B_TYPE))

\* "rs1, target = operands" and "rs1, rs2, target = operands" raise ValueError
\* when the list is longer than the targets
EncodeBType(mnemonic, operands, address) ==
    IF mnemonic \in {"bz", "bnz"}
    THEN IF Len(operands) < 2 THEN Raise("operand count")
         ELSE IF Len(operands) # 2 THEN Raise("unpack")
         ELSE BranchWord(mnemonic, operands[1], 0, operands[2], address)
    ELSE IF Len(operands) < 3 THEN Raise("operand count")
         ELSE IF Len(operands) # 3 THEN Raise("unpack")
         ELSE BranchWord(mnemonic, operands[1], operands[2], operands[3], address)

EncodeSType(mnemonic, operands) ==
    IF Len(operands) < 3 THEN Raise("operand count")
    ELSE IF Len(operands) # 3 THEN Raise("unpack")
    ELSE LET rs2 == operands[1]
             offset == operands[2]
             rs1 == operands[3]
             func3 == s_type_instructions[mnemonic]
         IN  IF offset < -8 \/ offset > 7 THEN Raise("store offset")
             ELSE Word(Or5(Shl(BitAnd(offset, 15), 12), Shl(rs2, 9), Shl(rs1, 6),
                           Shl(func3, 3), S_TYPE))

EncodeLType(mnemonic, operands) ==
    IF Len(operands) < 3 THEN Raise("operand count")
    ELSE IF Len(operands) # 3 THEN Raise("unpack")
    ELSE LET rd == operands[1]
             offset == operands[2]
             rs2 == operands[3]
             func3 == l_type_instructions[mnemonic]
         IN  IF offset < -8 \/ offset > 7 THEN Raise("load offset")
             ELSE Word(Or5(Shl(BitAnd(offset, 15), 12), Shl(rs2, 9), Shl(rd, 6),
                           Shl(func3, 3), L_TYPE))

JumpWord(link, rd, target, address) ==
    LET offset == target - (address + 2)
        imm_high == BitAnd(Shr(offset, 4), 63)
        imm_low == BitAnd(Shr(offset, 1), 7)
    IN  IF offset < -1024 \/ offset > 1020 \/ offset % 2 # 0
        THEN Raise("jump offset")
        ELSE Word(Or5(Shl(link, 15), Shl(imm_high, 9), Shl(rd, 6), Shl(imm_low, 3), J_TYPE))

EncodeJType(mnemonic, operands, address) ==
    IF mnemonic = "j"
    THEN IF Len(operands) < 1 THEN Raise("operand count")
         ELSE JumpWord(0, 0, operands[1], address)
    ELSE IF Len(operands) < 2 THEN Raise("operand count")
         ELSE IF Len(operands) # 2 THEN Raise("unpack")
         ELSE JumpWord(1, operands[1], operands[2], address)

EncodeUType(mnemonic, operands) ==
    IF Len(operands) < 2 THEN Raise("operand count")
    ELSE IF Len(operands) # 2 THEN Raise("unpack")
    ELSE LET rd == operands[1]
             immediate == operands[2]
             flag == IF mnemonic = "auipc" THEN 1 ELSE 0
             imm_high == BitAnd(Shr(immediate, 3), 63)
             imm_low == BitAnd(immediate, 7)
         IN  IF immediate < 0 \/ immediate > 511 THEN Raise("U-Type immediate")
             ELSE Word(Or5(Shl(flag, 15), Shl(imm_high, 9), Shl(rd, 6), Shl(imm_low, 3),
                           U_TYPE))

\* the word of ecall without its format tag
EncodeSysUntagged(operands) ==
    IF Len(operands) < 1 THEN Raise("operand count")
    ELSE IF operands[1] < 0 \/ operands[1] > 1023 THEN Raise("system call number")
    ELSE Word(Shl(operands[1], 6))

EncodeSys(operands) ==
    IF Len(operands) < 1 THEN Raise("operand count")
    ELSE LET svc == operands[1]
         IN  IF svc < 0 \/ svc > 1023 THEN Raise("system call number")
             ELSE Word(BitOr(Shl(svc, 6), SYS_TYPE))

encode_instruction(mnemonic, operands, address) ==
    IF mnemonic \in DOMAIN r_type_instructions THEN EncodeRType(mnemonic, operands)
    ELSE IF mnemonic \in DOMAIN i_type_instructions THEN EncodeIType(mnemonic, operands)
    ELSE IF mnemonic \in DOMAIN shift_instructions THEN EncodeShift(mnemonic, operands)
    ELSE IF mnemonic \in DOMAIN b_type_instructions THEN EncodeBType(mnemonic, operands, address)
    ELSE IF mnemonic \in DOMAIN s_type_instructions THEN EncodeSType(mnemonic, operands)
    ELSE IF mnemonic \in DOMAIN l_type_instructions THEN EncodeLType(mnemonic, operands)
    ELSE IF mnemonic \in {"j", "jal"} THEN EncodeJType(mnemonic, operands, address)
    ELSE IF mnemonic \in {"lui", "auipc"} THEN EncodeUType(mnemonic, operands)
    ELSE IF mnemonic = "ecall" THEN EncodeSys(operands)
    ELSE Raise("unknown instruction")

(***************************************************************************)
(* ZX16Parser.expand_pseudo_instruction, as pass 2 calls it: with integer  *)
(* operands (a symbol name has been resolved while the operands were       *)
(* parsed) and current_pc = current_address.  The result is the list of    *)
(* (mnemonic, operands) pairs, or the SyntaxError of a wrong operand count.*)
(***************************************************************************)
Expansion(list) == [ok |-> TRUE, list |-> list]
ExpandError == [ok |-> FALSE, list |-> <<>>]

\* li16 rd, imm16
ExpandLi16(operands) ==
    IF Len(operands) # 2 THEN ExpandError
    ELSE LET rd == operands[1]
             imm16 == operands[2]
             upper == BitAnd(Shr(imm16, 7), 511)
             lower == BitAnd(imm16, 127)
         IN  Expansion(<< <<"lui", <<rd, upper>> >>, <<"ori", <<rd, lower>> >> >>)

\* la rd, label with the label resolved to an address ("Direct address")
ExpandLa(operands, current_pc) ==
    IF Len(operands) # 2 THEN ExpandError
    ELSE LET rd == operands[1]
             label == operands[2]
             offset == label - current_pc
             upper == BitAnd(Shr(offset, 7), 511)
             lower == BitAnd(offset, 127)
         IN  Expansion(<< <<"auipc", <<rd, upper>> >>, <<"addi", <<rd, lower>> >> >>)

\* pop with the stack pointer moved before the load
ExpandStackAddiFirst(mnemonic, operands) ==
    IF Len(operands) # 1 THEN ExpandError
    ELSE IF mnemonic = "push"
    THEN Expansion(<< <<"addi", <<register_map["sp"], -2>> >>,
                      <<"sw", <<operands[1], 0, register_map["sp"]>> >> >>)
    ELSE Expansion(<< <<"addi", <<register_map["sp"], 2>> >>,
                      <<"lw", <<operands[1], 0, register_map["sp"]>> >> >>)

\* push rs and pop rd
ExpandStack(mnemonic, operands) ==
    LET sp == register_map["sp"]
    IN  IF Len(operands) # 1 THEN ExpandError
        ELSE IF mnemonic = "push"
        THEN Expansion(<< <<"addi", <<sp, -2>> >>, <<"sw", <<operands[1], 0, sp>> >> >>)
        ELSE Expansion(<< <<"lw", <<operands[1], 0, sp>> >>, <<"addi", <<sp, 2>> >> >>)

\* call label and ret
ExpandCallRet(mnemonic, operands) ==
    LET ra == register_map["ra"]
    IN  IF mnemonic = "call"
        THEN IF Len(operands) # 1 THEN ExpandError
             ELSE Expansion(<< <<"jal", <<ra, operands[1]>> >> >>)
        ELSE IF Len(operands) # 0 THEN ExpandError
             ELSE Expansion(<< <<"jr", <<ra, 0>> >> >>)

\* inc, dec, neg, not and clr rd
ExpandUnary(mnemonic, operands) ==
    IF Len(operands) # 1 THEN ExpandError
    ELSE LET rd == operands[1]
         IN  CASE mnemonic = "inc" -> Expansion(<< <<"addi", <<rd, 1>> >> >>)
               [] mnemonic = "dec" -> Expansion(<< <<"addi", <<rd, -1>> >> >>)
               [] mnemonic = "neg" ->
                    Expansion(<< <<"xori", <<rd, -1>> >>, <<"addi", <<rd, 1>> >> >>)
               [] mnemonic = "not" -> Expansion(<< <<"xori", <<rd, -1>> >> >>)
               [] mnemonic = "clr" -> Expansion(<< <<"xor", <<rd, rd>> >> >>)

ExpandNop(operands) ==
    IF Len(operands) # 0 THEN ExpandError
    ELSE Expansion(<< <<"add", <<0, 0>> >> >>)

expand_pseudo_instruction(mnemonic, operands, current_pc) ==
    CASE mnemonic = "li16" -> ExpandLi16(operands)
      [] mnemonic = "la" -> ExpandLa(operands, current_pc)
      [] mnemonic \in {"push", "pop"} -> ExpandStack(mnemonic, operands)
      [] mnemonic \in {"call", "ret"} -> ExpandCallRet(mnemonic, operands)
      [] mnemonic \in {"inc", "dec", "neg", "not", "clr"} -> ExpandUnary(mnemonic, operands)
      [] mnemonic = "nop" -> ExpandNop(operands)
      [] OTHER -> Expansion(<<>>)

(***************************************************************************)
(* Tokens.  value is the text of a name, num the integer of an IMMEDIATE   *)
(* or CHARACTER token (the lexer writes str(n), the passes read int(text)),*)
(* str the code points of a STRING token.                                  *)
(***************************************************************************)
Tok(type, value, num, str) == [type |-> type, value |-> value, num |-> num, str |-> str]
Ins(name) == Tok("INSTRUCTION", name, 0, <<>>)
Reg(name) == Tok("REGISTER", name, 0, <<>>)
Imm(n) == Tok("IMMEDIATE", "", n, <<>>)
Chr(n) == Tok("CHARACTER", "", n, <<>>)
Lbl(name) == Tok("LABEL", name, 0, <<>>)
Dir(name) == Tok("DIRECTIVE", name, 0, <<>>)
Str(s) == Tok("STRING", "", 0, s)
Comma == Tok("COMMA", ",", 0, <<>>)
LParen == Tok("LPAREN", "(", 0, <<>>)
RParen == Tok("RPAREN", ")", 0, <<>>)
Comment == Tok("COMMENT", "#", 0, <<>>)
Newline == Tok("NEWLINE", "", 0, <<>>)
Eof == Tok("EOF", "", 0, <<>>)

\* a source line: the tokens the lexer makes of it, and whether read_number
\* raises ValueError on it (a base prefix with no digit after it)
Line(toks) == [toks |-> toks, raises |-> FALSE]
BadNumber == [toks |-> <<>>, raises |-> TRUE]

\* str.lower() on the names the sources use
Lower(name) ==
    CASE name = "NOP" -> "nop"
      [] name = "PUSH" -> "push"
      [] name = "A0" -> "a0"
      [] name = ".DATA" -> ".data"
      [] OTHER -> name

RECURSIVE WithLine(_, _)
WithLine(toks, n) ==
    IF toks = <<>> THEN <<>>
    ELSE <<[type |-> Head(toks).type, value |-> Head(toks).value, num |-> Head(toks).num,
            str |-> Head(toks).str, line |-> n]>> \o WithLine(Tail(toks), n)

\* ZX16Lexer.tokenize: the tokens of every line, a NEWLINE after each, then EOF
RECURSIVE TokenizeFrom(_, _)
TokenizeFrom(src, n) ==
    IF n > Len(src) THEN WithLine(<<Eof>>, n)
    ELSE WithLine(src[n].toks \o <<Newline>>, n) \o TokenizeFrom(src, n + 1)

tokenize(src) == TokenizeFrom(src, 1)

LexerRaises(src) == \E n \in 1..Len(src) : src[n].raises

(***************************************************************************)
(* ZX16Lexer on characters: text, pos, the tokens appended so far (their   *)
(* types), and where tokenize() is: at the head of its loop ("top"), at    *)
(* the test or in the body of one of the scanning loops, in the chain of   *)
(* ifs ("dispatch"), after the skip_whitespace that looks for the colon of *)
(* a label ("label"), returned ("done") or left by an exception ("raised").*)
(***************************************************************************)
MaxText == 3
LexMargin == 2

Chars == {"a", "x", "0", "1", " ", "\n", ":", "#", "\"", "'", "\\", "/", "*", ".", "-"}

\* str.isdigit and str.isalpha on one character or on ''
IsDigit(c) == c \in {"0", "1", "2", "3", "4", "5", "6", "7", "8", "9"}
IsAlpha(c) == c \in {"a", "b", "c", "d", "e", "f", "o", "x"}

\* "c in chars" for a Python string chars: '' is in every string
InString(c, chars) == c = "" \/ c \in chars

NewLexer(text) ==
    [text |-> text, pos |-> 0, at |-> "top", loop |-> "", ret |-> "",
     start_pos |-> 0, old_pos |-> 0, toks |-> <<>>]

current_char(lx) == IF lx.pos >= Len(lx.text) THEN "" ELSE lx.text[lx.pos + 1]

peek_char(lx) == IF lx.pos + 1 >= Len(lx.text) THEN "" ELSE lx.text[lx.pos + 2]

\* ZX16Lexer.advance: pos += 1, also past the end of the text; every position
\* from len(text) + LexMargin on is kept as one
lexer_advance(lx) ==
    [lx EXCEPT !.pos = IF @ < Len(lx.text) + LexMargin THEN @ + 1 ELSE @]

\* tokens.append(Token(type, ...)) and continue
Emit(lx, type) == [lx EXCEPT !.toks = Append(@, type), !.at = "top"]

\* enter a scanning loop at its test
Scan(lx, loop) == [lx EXCEPT !.at = "test", !.loop = loop]

\* the condition of each while loop of the lexer
Continues(lx) ==
    CASE lx.loop = "whitespace" -> InString(current_char(lx), {" ", "\t", "\r"})
      [] lx.loop = "comment" -> current_char(lx) # "" /\ current_char(lx) # "\n"
      [] lx.loop = "block" -> lx.pos < Len(lx.text) - 1
      [] lx.loop = "string" -> current_char(lx) # "" /\ current_char(lx) # "\""
      [] lx.loop = "hex" ->
            InString(current_char(lx), {"0", "1", "2", "3", "4", "5", "6", "7", "8", "9",
                                        "a", "b", "c", "d", "e", "f"})
      [] lx.loop = "binary" -> InString(current_char(lx), {"0", "1"})
      [] lx.loop = "octal" -> InString(current_char(lx), {"0", "1", "2", "3", "4", "5", "6", "7"})
      [] lx.loop = "decimal" -> IsDigit(current_char(lx))
      [] lx.loop = "identifier" ->
            \/ IsDigit(current_char(lx)) \/ IsAlpha(current_char(lx))
            \/ InString(current_char(lx), {"_"})

is_register(identifier) ==
    identifier \in {<<"x", "0">>, <<"x", "1">>, <<"a", "0">>, <<"a", "1">>}

\* what follows each loop once its condition is false
Leave(lx) ==
    CASE lx.loop = "whitespace" ->
            [lx EXCEPT !.at = IF lx.ret = "tokenize" THEN "dispatch" ELSE "label"]
      [] lx.loop \in {"comment", "block"} -> Emit(lx, "COMMENT")
      [] lx.loop = "string" ->
            Emit(IF current_char(lx) = "\"" THEN lexer_advance(lx) ELSE lx, "STRING")
      [] lx.loop \in {"hex", "binary", "octal"} ->
            \* int(text[start_pos:pos], base) of a prefix with no digit raises
            IF lx.pos = lx.start_pos + 2 THEN [lx EXCEPT !.at = "raised"]
            ELSE Emit(lx, "IMMEDIATE")
      [] lx.loop = "decimal" -> Emit(lx, "IMMEDIATE")
      [] lx.loop = "identifier" ->
            IF lx.ret = "directive" THEN Emit(lx, "DIRECTIVE")
            ELSE Scan([lx EXCEPT !.old_pos = lx.pos, !.ret = "label"], "whitespace")

\* read_number up to the loop over the digits; lx is at the first digit
read_number(lx) ==
    IF current_char(lx) = "0" /\ peek_char(lx) # ""
    THEN CASE peek_char(lx) \in {"x", "X"} -> Scan(lexer_advance(lexer_advance(lx)), "hex")
           [] peek_char(lx) \in {"b", "B"} -> Scan(lexer_advance(lexer_advance(lx)), "binary")
           [] peek_char(lx) \in {"o", "O"} -> Scan(lexer_advance(lexer_advance(lx)), "octal")
           [] OTHER -> Scan(lx, "decimal")
    ELSE Scan(lx, "decimal")

\* a character literal, lx at the character or at the backslash: ord('')
\* raises TypeError; then the closing quote, if there is one
CharacterLiteral(lx, after) ==
    IF current_char(lx) = "" \/ (current_char(lx) = "\\" /\ peek_char(lx) = "")
    THEN [lx EXCEPT !.at = "raised"]
    ELSE Emit(IF current_char(after) = "'" THEN lexer_advance(after) ELSE after, "CHARACTER")

(***************************************************************************)
(* The symbol table.                                                       *)
(***************************************************************************)
Symbol(value, global_symbol, line) ==
    [value |-> value, defined |-> TRUE, global_symbol |-> global_symbol, line |-> line]

builtins ==
    [__ZX16__ |-> 1, __VERSION__ |-> 256, RESET_VECTOR |-> 0, CODE_START |-> 32,
     MMIO_BASE |-> 61440, MEM_SIZE |-> 65536,
     T0 |-> 0, RA |-> 1, SP |-> 2, S0 |-> 3, S1 |-> 4, T1 |-> 5, A0 |-> 6, A1 |-> 7]

init_builtin_symbols == [name \in DOMAIN builtins |-> Symbol(builtins[name], TRUE, 0)]

section_addresses == (".text" :> 32) @@ (".data" :> 32768) @@ (".bss" :> 36864)

Error(message, line) == [message |-> message, line |-> line, severity |-> "Error"]

\* add_error: every call of the code leaves the severity "Error"
add_error(errs, error) ==
    IF error.severity = "Error" THEN Append(errs, error) ELSE errs

\* define_symbol with the later definition replacing the earlier one
define_symbol_overwrite(syms, errs, name, value, line) ==
    [symbols |-> [n \in DOMAIN syms \cup {name} |->
                     IF n = name THEN Symbol(value, FALSE, line) ELSE syms[n]],
     errors |-> errs]

\* define_symbol: a defined name is left as it is and an error is recorded
define_symbol(syms, errs, name, value, line) ==
    IF name \in DOMAIN syms /\ syms[name].defined
    THEN [symbols |-> syms,
          errors |-> add_error(errs, Error("already defined", line))]
    ELSE [symbols |-> [n \in DOMAIN syms \cup {name} |->
                          IF n = name THEN Symbol(value, FALSE, line) ELSE syms[n]],
          errors |-> errs]

\* resolve_symbol with an absent name read as 0 and no error recorded
resolve_symbol_silent(syms, errs, name, line) ==
    IF name \in DOMAIN syms THEN [value |-> syms[name].value, errors |-> errs]
    ELSE [value |-> 0, errors |-> errs]

\* resolve_symbol: the value, or 0 and an error
resolve_symbol(syms, errs, name, line) ==
    IF name \in DOMAIN syms
    THEN IF ~syms[name].defined
         THEN [value |-> 0, errors |-> add_error(errs, Error("undefined symbol", line))]
         ELSE [value |-> syms[name].value, errors |-> errs]
    ELSE [value |-> 0, errors |-> add_error(errs, Error("unknown symbol", line))]

(***************************************************************************)
(* The state.  source is the text handed to assemble(); pc is where        *)
(* assemble() is; parser is the ZX16Parser of the running pass (pos, and   *)
(* cur, the index of current_token, which pass 1 lets differ from pos);    *)
(* result is what assemble() returned.  obs records, for the properties,   *)
(* what each pass did on each source line; the enc variables hold one call *)
(* of the encoder, and lexer one run of ZX16Lexer on a text of characters.  *)
(***************************************************************************)
VARIABLES source, pc, tokens, parser, symbols, errors, warnings,
          current_address, current_section, sections, result, obs,
          encMnemonic, encOperands, encResult, lexer

vars == <<source, pc, tokens, parser, symbols, errors, warnings,
          current_address, current_section, sections, result, obs,
          encMnemonic, encOperands, encResult, lexer>>

encVars == <<encMnemonic, encOperands, encResult>>

(***************************************************************************)
(* ZX16Parser: the cursor over the token list.                             *)
(***************************************************************************)
NewParser == [pos |-> 1, cur |-> 1]

\* ZX16Parser.advance: stays on the last token
Advance(p) ==
    IF p.pos < Len(tokens) THEN [pos |-> p.pos + 1, cur |-> p.pos + 1] ELSE p

CurType(p) == tokens[p.cur].type

\* "while parser.current_token.type not in stop: parser.advance()"
RECURSIVE SkipUntil(_, _)
SkipUntil(p, stop) ==
    IF CurType(p) \in stop THEN p ELSE SkipUntil(Advance(p), stop)

EndOfLine == {"NEWLINE", "EOF"}
EndOfOperands == {"NEWLINE", "EOF", "COMMENT"}

(***************************************************************************)
(* Pass 1: the directives.  Each handler takes the parser after the        *)
(* directive token and gives the parser, the address, the section, the     *)
(* symbols and the errors it leaves.                                       *)
(***************************************************************************)
P1State(p, addr, sec, syms, errs) ==
    [parser |-> p, address |-> addr, section |-> sec, symbols |-> syms, errors |-> errs]

\* .byte: one byte per IMMEDIATE or CHARACTER, separated by commas
RECURSIVE ByteSize(_, _)
ByteSize(p, addr) ==
    IF CurType(p) \in {"IMMEDIATE", "CHARACTER"}
    THEN LET q == Advance(p)
         IN  IF CurType(q) = "COMMA"
             THEN ByteSize(Advance(q), addr + 1)
             ELSE [parser |-> q, address |-> addr + 1]
    ELSE [parser |-> p, address |-> addr]

\* .word: two bytes per IMMEDIATE
RECURSIVE WordSize(_, _)
WordSize(p, addr) ==
    IF CurType(p) = "IMMEDIATE"
    THEN LET q == Advance(p)
         IN  IF CurType(q) = "COMMA"
             THEN WordSize(Advance(q), addr + 2)
             ELSE [parser |-> q, address |-> addr + 2]
    ELSE [parser |-> p, address |-> addr]

IsDataDirective(directive) == directive \in {".byte", ".word", ".string", ".ascii", ".space"}

Sized(sized, sec, syms, errs) == P1State(sized.parser, sized.address, sec, syms, errs)

Pass1Data(directive, p, addr, sec, syms, errs, line) ==
    CASE directive = ".byte" -> Sized(ByteSize(p, addr), sec, syms, errs)
      [] directive = ".word" -> Sized(WordSize(p, addr), sec, syms, errs)
      [] directive \in {".string", ".ascii"} ->
           IF CurType(p) = "STRING"
           THEN LET string_len == Len(tokens[p.cur].str)
                                  + (IF directive = ".string" THEN 1 ELSE 0)
                IN  P1State(Advance(p), addr + string_len, sec, syms, errs)
           ELSE P1State(p, addr, sec, syms, add_error(errs, Error("expected string", line)))
      [] directive = ".space" ->
           IF CurType(p) = "IMMEDIATE"
           THEN P1State(Advance(p), addr + tokens[p.cur].num, sec, syms, errs)
           ELSE P1State(p, addr, sec, syms, add_error(errs, Error("expected size", line)))

\* .equ/.set where an absent reference defines the name with the value 0
Pass1EquZero(p, addr, sec, syms, errs, line) ==
    IF CurType(p) = "INSTRUCTION"
    THEN LET symbol_name == tokens[p.cur].value
             q == Advance(p)
             r == IF CurType(q) = "COMMA" THEN Advance(q) ELSE q
         IN  IF CurType(r) = "IMMEDIATE"
             THEN LET d == define_symbol(syms, errs, symbol_name, tokens[r.cur].num, line)
                  IN  P1State(Advance(r), addr, sec, d.symbols, d.errors)
             ELSE IF CurType(r) = "INSTRUCTION"
             THEN LET ref_symbol == tokens[r.cur].value
                  IN  IF ref_symbol \in DOMAIN syms
                      THEN LET d == define_symbol(syms, errs, symbol_name,
                                                  syms[ref_symbol].value, line)
                           IN  P1State(Advance(r), addr, sec, d.symbols, d.errors)
                      ELSE LET d == define_symbol(syms, errs, symbol_name, 0, line)
                           IN  P1State(Advance(r), addr, sec, d.symbols,
                                       add_error(d.errors,
                                                 Error("undefined symbol in .equ", line)))
             ELSE P1State(r, addr, sec, syms, add_error(errs, Error("expected value", line)))
    ELSE P1State(p, addr, sec, syms, add_error(errs, Error("expected symbol name", line)))

Pass1Equ(p, addr, sec, syms, errs, line) ==
    IF CurType(p) = "INSTRUCTION"
    THEN LET symbol_name == tokens[p.cur].value
             q == Advance(p)
             r == IF CurType(q) = "COMMA" THEN Advance(q) ELSE q
         IN  IF CurType(r) = "IMMEDIATE"
             THEN LET d == define_symbol(syms, errs, symbol_name, tokens[r.cur].num, line)
                  IN  P1State(Advance(r), addr, sec, d.symbols, d.errors)
             ELSE IF CurType(r) = "INSTRUCTION"
             THEN LET ref_symbol == tokens[r.cur].value
                  IN  IF ref_symbol \in DOMAIN syms
                      THEN LET d == define_symbol(syms, errs, symbol_name,
                                                  syms[ref_symbol].value, line)
                           IN  P1State(Advance(r), addr, sec, d.symbols, d.errors)
                      ELSE P1State(Advance(r), addr, sec, syms,
                                   add_error(errs, Error("undefined symbol in .equ", line)))
             ELSE P1State(r, addr, sec, syms, add_error(errs, Error("expected value", line)))
    ELSE P1State(p, addr, sec, syms, add_error(errs, Error("expected symbol name", line)))

Pass1Global(p, addr, sec, syms, errs, line) ==
    IF CurType(p) = "INSTRUCTION"
    THEN LET symbol_name == tokens[p.cur].value
         IN  P1State(Advance(p), addr, sec,
                     [n \in DOMAIN syms |->
                        IF n = symbol_name
                        THEN [syms[n] EXCEPT !.global_symbol = TRUE] ELSE syms[n]],
                     errs)
    ELSE P1State(p, addr, sec, syms, add_error(errs, Error("expected symbol name", line)))

\* "while parser.current_token.type not in [NEWLINE, EOF]: parser.advance()"
SkipLine(st) == [st EXCEPT !.parser = SkipUntil(st.parser, EndOfLine)]

\* the directive branch of pass 1
pass1_directive(directive, p, addr, sec, syms, errs, line) ==
    SkipLine( CASE directive = ".org" ->
                 IF CurType(p) = "IMMEDIATE"
                 THEN P1State(Advance(p), tokens[p.cur].num, sec, syms, errs)
                 ELSE P1State(p, addr, sec, syms, add_error(errs, Error("expected address", line)))
            [] directive \in {".text", ".data", ".bss"} ->
                 P1State(p, section_addresses[directive], directive, syms, errs)
            [] directive \in {".equ", ".set"} -> Pass1Equ(p, addr, sec, syms, errs, line)
            [] directive = ".global" -> Pass1Global(p, addr, sec, syms, errs, line)
            [] IsDataDirective(directive) -> Pass1Data(directive, p, addr, sec, syms, errs, line)
            [] OTHER -> P1State(p, addr, sec, syms, errs) )

(***************************************************************************)
(* Pass 1: an instruction.  For li the operands are scanned for the last   *)
(* IMMEDIATE or CHARACTER, then "parser.pos = temp_pos" puts pos back and  *)
(* leaves current_token where the scan ended.                              *)
(***************************************************************************)
\* the scan for the immediate of li: the parser it ends on and what it found
RECURSIVE ScanImmediate(_, _, _)
ScanImmediate(p, has_immediate, immediate_value) ==
    IF CurType(p) \in EndOfOperands
    THEN [parser |-> p, has_immediate |-> has_immediate, immediate_value |-> immediate_value]
    ELSE IF CurType(p) \in {"IMMEDIATE", "CHARACTER"}
    THEN ScanImmediate(Advance(p), TRUE, tokens[p.cur].num)
    ELSE ScanImmediate(Advance(p), has_immediate, immediate_value)

\* the size rule of pass 1
InstructionSize(mnemonic, has_immediate, immediate_value) ==
    IF mnemonic = "li" /\ has_immediate
    THEN IF -64 <= immediate_value /\ immediate_value <= 63 THEN 2 ELSE 4
    ELSE IF mnemonic \in pseudo_instructions
    THEN IF mnemonic \in {"li16", "neg"} THEN 4 ELSE 2
    ELSE 2

\* the instruction branch of pass 1: p is the parser after the mnemonic
Rewound(scan, temp_pos, mnemonic, addr) ==
    [parser |-> SkipUntil([pos |-> temp_pos, cur |-> scan.parser.cur], EndOfOperands),
     address |-> addr + InstructionSize(mnemonic, scan.has_immediate, scan.immediate_value)]

pass1_instruction(mnemonic, p, addr) ==
    IF mnemonic = "li"
    THEN Rewound(ScanImmediate(p, FALSE, 0), p.pos, mnemonic, addr)
    ELSE [parser |-> SkipUntil(p, EndOfOperands),
          address |-> addr + InstructionSize(mnemonic, FALSE, 0)]

(***************************************************************************)
(* Pass 2: the operands of an instruction.                                 *)
(***************************************************************************)
\* register_map.get(reg_name, 0)
RegisterNumber(name) ==
    IF Lower(name) \in DOMAIN register_map THEN register_map[Lower(name)] ELSE 0

RECURSIVE ParseOperands(_, _, _, _)
ParseOperands(p, operands, errs, line) ==
    LET t == tokens[p.cur]
    IN  IF t.type \in EndOfOperands
        THEN [parser |-> p, operands |-> operands, errors |-> errs]
        ELSE IF t.type = "COMMA" THEN ParseOperands(Advance(p), operands, errs, line)
        ELSE IF t.type = "REGISTER"
        THEN ParseOperands(Advance(p), Append(operands, RegisterNumber(t.value)), errs, line)
        ELSE IF t.type \in {"IMMEDIATE", "CHARACTER"}
        THEN ParseOperands(Advance(p), Append(operands, t.num), errs, line)
        ELSE IF t.type = "INSTRUCTION"
        THEN LET r == resolve_symbol(symbols, errs, t.value, line)
             IN  ParseOperands(Advance(p), Append(operands, r.value), r.errors, line)
        ELSE IF t.type = "LPAREN"
        THEN LET q == Advance(p)
                 isReg == CurType(q) = "REGISTER"
                 q2 == IF isReg THEN Advance(q) ELSE q
                 q3 == IF CurType(q2) = "RPAREN" THEN Advance(q2) ELSE q2
             IN  ParseOperands(q3,
                               IF isReg
                               THEN Append(operands, RegisterNumber(tokens[q.cur].value))
                               ELSE operands,
                               errs, line)
        ELSE ParseOperands(Advance(p), operands, errs, line)

(***************************************************************************)
(* Pass 2: the bytes of an instruction.                                    *)
(***************************************************************************)
\* the word, low byte first
WordBytes(encoding) == <<BitAnd(encoding, 255), BitAnd(Shr(encoding, 8), 255)>>

\* "for exp_mnemonic, exp_operands in expanded": each word is encoded at the
\* address the words before it have advanced to; an exception ends the loop
\* and keeps what was appended
RECURSIVE EmitAll(_, _, _)
EmitNext(encoding, rest, bytes, addr) ==
    IF ~encoding.ok THEN [bytes |-> bytes, address |-> addr, raised |-> TRUE]
    ELSE EmitAll(rest, bytes \o WordBytes(encoding.word), addr + 2)

EmitAll(expanded, bytes, addr) ==
    IF expanded = <<>> THEN [bytes |-> bytes, address |-> addr, raised |-> FALSE]
    ELSE EmitNext(encode_instruction(Head(expanded)[1], Head(expanded)[2], addr),
                  Tail(expanded), bytes, addr)

\* the li of one word with the range test off by one
LiIsRealTo64(imm) == -64 <= imm /\ imm <= 64

\* li is the real instruction when its immediate fits 7 bits signed
LiIsReal(imm) == -64 <= imm /\ imm <= 63

\* the instructions the try encodes, in order: the instruction itself, the
\* expansion of a pseudo-instruction or of an li that is not real, or the
\* SyntaxError of a wrong operand count
Expanded(mnemonic, operands, addr) ==
    IF mnemonic = "li"
    THEN IF Len(operands) >= 2
         THEN IF LiIsReal(operands[2])
              THEN Expansion(<< <<mnemonic, operands>> >>)
              ELSE expand_pseudo_instruction("li16", <<operands[1], operands[2]>>, addr)
         ELSE ExpandError
    ELSE IF mnemonic \in pseudo_instructions
    THEN expand_pseudo_instruction(mnemonic, operands, addr)
    ELSE Expansion(<< <<mnemonic, operands>> >>)

EmitExpanded(expanded, addr) ==
    IF expanded.ok THEN EmitAll(expanded.list, <<>>, addr)
    ELSE [bytes |-> <<>>, address |-> addr, raised |-> TRUE]

\* the body of the try: the bytes appended, the address after them and
\* whether an exception left the body
GenerateCode(mnemonic, operands, addr) ==
    EmitExpanded(Expanded(mnemonic, operands, addr), addr)

\* the except clause: current_address += 2
AddressAfterError(mnemonic, address) == address + 2

\* the try and its except clause
TryCode(code, mnemonic, errs, line) ==
    IF code.raised
    THEN [bytes |-> code.bytes, address |-> AddressAfterError(mnemonic, code.address),
          errors |-> add_error(errs, Error("error encoding instruction", line)),
          raised |-> TRUE]
    ELSE [bytes |-> code.bytes, address |-> code.address, errors |-> errs,
          raised |-> FALSE]

\* the instruction branch of pass 2 after the operands
pass2_instruction(mnemonic, operands, addr, errs, line) ==
    TryCode(GenerateCode(mnemonic, operands, addr), mnemonic, errs, line)

(***************************************************************************)
(* Pass 2: the directives.                                                 *)
(***************************************************************************)
\* [0] * n one byte short
ZerosButOne(n) == IF n <= 1 THEN <<>> ELSE [i \in 1..(n - 1) |-> 0]

\* [0] * n: no byte when n is not positive
Zeros(n) == IF n <= 0 THEN <<>> ELSE [i \in 1..n |-> 0]

\* str.encode('utf-8') of one code point (below 0x10000)
Utf8(cp) ==
    IF cp < 128 THEN <<cp>>
    ELSE IF cp < 2048 THEN <<192 + (cp \div 64), 128 + (cp % 64)>>
    ELSE <<224 + (cp \div 4096), 128 + ((cp \div 64) % 64), 128 + (cp % 64)>>

RECURSIVE EncodeUtf8(_)
EncodeUtf8(str) == IF str = <<>> THEN <<>> ELSE Utf8(Head(str)) \o EncodeUtf8(Tail(str))

RECURSIVE ByteData(_, _)
ByteData(p, bytes) ==
    IF CurType(p) \in {"IMMEDIATE", "CHARACTER"}
    THEN LET q == Advance(p)
             out == Append(bytes, BitAnd(tokens[p.cur].num, 255))
         IN  IF CurType(q) = "COMMA" THEN ByteData(Advance(q), out)
             ELSE [parser |-> q, bytes |-> out]
    ELSE [parser |-> p, bytes |-> bytes]

RECURSIVE WordData(_, _)
WordData(p, bytes) ==
    IF CurType(p) = "IMMEDIATE"
    THEN LET q == Advance(p)
             value == BitAnd(tokens[p.cur].num, 65535)
             out == bytes \o <<BitAnd(value, 255), BitAnd(Shr(value, 8), 255)>>
         IN  IF CurType(q) = "COMMA" THEN WordData(Advance(q), out)
             ELSE [parser |-> q, bytes |-> out]
    ELSE [parser |-> p, bytes |-> bytes]

\* .byte and .word advance current_address with every byte they append
Appended(data) == [parser |-> data.parser, bytes |-> data.bytes, advance |-> Len(data.bytes)]

\* a data directive of pass 2: the parser, the bytes appended to the current
\* section and the advance of current_address
Pass2Data(directive, p) ==
    CASE directive = ".byte" -> Appended(ByteData(p, <<>>))
      [] directive = ".word" -> Appended(WordData(p, <<>>))
      [] directive \in {".string", ".ascii"} ->
           IF CurType(p) = "STRING"
           THEN LET string_data == EncodeUtf8(tokens[p.cur].str)
                    bytes == IF directive = ".string" THEN Append(string_data, 0)
                             ELSE string_data
                IN  [parser |-> Advance(p), bytes |-> bytes, advance |-> Len(bytes)]
           ELSE [parser |-> p, bytes |-> <<>>, advance |-> 0]
      [] directive = ".space" ->
           IF CurType(p) = "IMMEDIATE"
           THEN [parser |-> Advance(p), bytes |-> Zeros(tokens[p.cur].num),
                 advance |-> tokens[p.cur].num]
           ELSE [parser |-> p, bytes |-> <<>>, advance |-> 0]

DataEmitted(d, addr, sec) ==
    [parser |-> d.parser, address |-> addr + d.advance, section |-> sec, bytes |-> d.bytes]

\* the directive branch of pass 2
pass2_directive(directive, p, addr, sec) ==
    SkipLine( CASE directive = ".org" ->
                 IF CurType(p) = "IMMEDIATE"
                 THEN [parser |-> Advance(p), address |-> tokens[p.cur].num,
                       section |-> sec, bytes |-> <<>>]
                 ELSE [parser |-> p, address |-> addr, section |-> sec, bytes |-> <<>>]
            [] directive \in {".text", ".data", ".bss"} ->
                 [parser |-> p, address |-> section_addresses[directive],
                  section |-> directive, bytes |-> <<>>]
            [] IsDataDirective(directive) ->
                 DataEmitted(Pass2Data(directive, p), addr, sec)
            [] OTHER -> [parser |-> p, address |-> addr, section |-> sec, bytes |-> <<>>] )

(***************************************************************************)
(* What the passes did, line by line (history for the properties):         *)
(*   size1[l]   the advance of current_address by the instructions and     *)
(*              data directives of line l in pass 1                        *)
(*   start1[l]  current_address when pass 1 began the first instruction or *)
(*              data directive of line l (-1: none yet); start2 for pass 2 *)
(*   adv2[l]    the advance of current_address on line l in pass 2         *)
(*   emit2[l]   the bytes pass 2 appended to the section on line l         *)
(*   raised2[l] pass 2 recorded an encoding error on line l                *)
(*   label2     the labels pass 2 has met, with current_address then       *)
(*   pass2done  pass 2 has reached EOF                                     *)
(***************************************************************************)
NoObs(src) ==
    [size1 |-> [l \in 1..Len(src) + 1 |-> 0],
     start1 |-> [l \in 1..Len(src) + 1 |-> -1],
     start2 |-> [l \in 1..Len(src) + 1 |-> -1],
     adv2 |-> [l \in 1..Len(src) + 1 |-> 0],
     emit2 |-> [l \in 1..Len(src) + 1 |-> <<>>],
     raised2 |-> [l \in 1..Len(src) + 1 |-> FALSE],
     label2 |-> <<>>,
     pass2done |-> FALSE]

First(old, addr) == IF old = -1 THEN addr ELSE old

(***************************************************************************)
(* ZX16Assembler.__init__, and the source assemble() is called with.       *)
(***************************************************************************)
InitWith(programs) ==
    /\ source \in programs
    /\ pc = "start"
    /\ tokens = <<>>
    /\ parser = NewParser
    /\ symbols = init_builtin_symbols
    /\ errors = <<>>
    /\ warnings = <<>>
    /\ current_address = 32
    /\ current_section = ".text"
    /\ sections = [sec \in DOMAIN section_addresses |-> <<>>]
    /\ result = "running"
    /\ obs = NoObs(source)
    /\ encMnemonic = ""
    /\ encOperands = <<>>
    /\ encResult = Raise("not called")
    /\ lexer = NewLexer(<<>>)

(***************************************************************************)
(* assemble(): the lexer, then the head of pass 1.  An exception of the    *)
(* lexer is caught by assemble(), recorded, and assemble() returns False.  *)
(***************************************************************************)
Tokenize ==
    /\ pc = "start"
    /\ IF LexerRaises(source)
       THEN /\ errors' = add_error(errors, Error("Internal assembler error", 0))
            /\ result' = "False"
            /\ pc' = "done"
            /\ UNCHANGED <<tokens, parser, current_address>>
       ELSE /\ tokens' = tokenize(source)
            /\ parser' = NewParser
            /\ current_address' = section_addresses[current_section]
            /\ pc' = "pass1"
            /\ UNCHANGED <<errors, result>>
    /\ UNCHANGED <<source, symbols, warnings, current_section, sections, obs, encVars, lexer>>

(***************************************************************************)
(* Pass 1, one turn of its loop.                                           *)
(***************************************************************************)
Statement == {"LABEL", "DIRECTIVE", "INSTRUCTION"}

\* comments and newlines, and "skip unknown tokens"
Pass1Advance ==
    /\ pc = "pass1"
    /\ CurType(parser) \notin Statement \cup {"EOF"}
    /\ parser' = Advance(parser)
    /\ UNCHANGED <<source, pc, tokens, symbols, errors, warnings, current_address,
                   current_section, sections, result, obs, encVars, lexer>>

Pass1Label ==
    /\ pc = "pass1"
    /\ CurType(parser) = "LABEL"
    /\ \E t \in {tokens[parser.cur]} :
       \E d \in {define_symbol(symbols, errors, t.value, current_address, t.line)} :
           /\ symbols' = d.symbols
           /\ errors' = d.errors
    /\ parser' = Advance(parser)
    /\ UNCHANGED <<source, pc, tokens, warnings, current_address, current_section,
                   sections, result, obs, encVars, lexer>>

Pass1Directive ==
    /\ pc = "pass1"
    /\ CurType(parser) = "DIRECTIVE"
    /\ \E t \in {tokens[parser.cur]} :
       \E directive \in {Lower(t.value)} :
       \E st \in {pass1_directive(directive, Advance(parser), current_address,
                                  current_section, symbols, errors, t.line)} :
           /\ parser' = st.parser
           /\ current_address' = st.address
           /\ current_section' = st.section
           /\ symbols' = st.symbols
           /\ errors' = st.errors
           /\ obs' = IF IsDataDirective(directive)
                     THEN [obs EXCEPT
                             !.size1[t.line] = @ + (st.address - current_address),
                             !.start1[t.line] = First(@, current_address)]
                     ELSE obs
    /\ UNCHANGED <<source, pc, tokens, warnings, sections, result, encVars, lexer>>

Pass1Instruction ==
    /\ pc = "pass1"
    /\ CurType(parser) = "INSTRUCTION"
    /\ \E t \in {tokens[parser.cur]} :
       \E st \in {pass1_instruction(Lower(t.value), Advance(parser), current_address)} :
           /\ parser' = st.parser
           /\ current_address' = st.address
           /\ obs' = [obs EXCEPT !.size1[t.line] = @ + (st.address - current_address),
                                 !.start1[t.line] = First(@, current_address)]
    /\ UNCHANGED <<source, pc, tokens, symbols, errors, warnings, current_section,
                   sections, result, encVars, lexer>>

\* the end of pass 1 with pass 2 run whatever pass 1 recorded
Pass1EndRunsPass2 ==
    /\ pc = "pass1"
    /\ CurType(parser) = "EOF"
    /\ parser' = NewParser
    /\ current_address' = section_addresses[current_section]
    /\ pc' = "pass2"
    /\ UNCHANGED <<source, tokens, symbols, errors, warnings, current_section,
                   sections, result, obs, encVars, lexer>>

\* EOF: assemble() returns False after a pass 1 with errors, else pass 2 begins
\* with a new parser, in the section pass 1 ended in
Pass1End ==
    /\ pc = "pass1"
    /\ CurType(parser) = "EOF"
    /\ IF Len(errors) > 0
       THEN /\ result' = "False"
            /\ pc' = "done"
            /\ UNCHANGED <<parser, current_address>>
       ELSE /\ parser' = NewParser
            /\ current_address' = section_addresses[current_section]
            /\ pc' = "pass2"
            /\ UNCHANGED result
    /\ UNCHANGED <<source, tokens, symbols, errors, warnings, current_section,
                   sections, obs, encVars, lexer>>

(***************************************************************************)
(* Pass 2, one turn of its loop.                                           *)
(***************************************************************************)
Pass2Advance ==
    /\ pc = "pass2"
    /\ CurType(parser) \notin Statement \cup {"EOF"}
    /\ parser' = Advance(parser)
    /\ UNCHANGED <<source, pc, tokens, symbols, errors, warnings, current_address,
                   current_section, sections, result, obs, encVars, lexer>>

Pass2Label ==
    /\ pc = "pass2"
    /\ CurType(parser) = "LABEL"
    /\ parser' = Advance(parser)
    /\ obs' = [obs EXCEPT !.label2 = Append(@, [name |-> tokens[parser.cur].value,
                                                 address |-> current_address,
                                                 at |-> parser.cur])]
    /\ UNCHANGED <<source, pc, tokens, symbols, errors, warnings, current_address,
                   current_section, sections, result, encVars, lexer>>

Pass2Directive ==
    /\ pc = "pass2"
    /\ CurType(parser) = "DIRECTIVE"
    /\ \E t \in {tokens[parser.cur]} :
       \E directive \in {Lower(t.value)} :
       \E st \in {pass2_directive(directive, Advance(parser), current_address,
                                  current_section)} :
           /\ parser' = st.parser
           /\ current_address' = st.address
           /\ current_section' = st.section
           /\ sections' = [sections EXCEPT ![st.section] = @ \o st.bytes]
           /\ obs' = IF IsDataDirective(directive)
                     THEN [obs EXCEPT
                             !.adv2[t.line] = @ + (st.address - current_address),
                             !.emit2[t.line] = @ \o st.bytes,
                             !.start2[t.line] = First(@, current_address)]
                     ELSE obs
    /\ UNCHANGED <<source, pc, tokens, symbols, errors, warnings, result, encVars, lexer>>

Pass2Instruction ==
    /\ pc = "pass2"
    /\ CurType(parser) = "INSTRUCTION"
    /\ \E t \in {tokens[parser.cur]} :
       \E ops \in {ParseOperands(Advance(parser), <<>>, errors, t.line)} :
       \E st \in {pass2_instruction(Lower(t.value), ops.operands, current_address,
                                    ops.errors, t.line)} :
           /\ parser' = ops.parser
           /\ current_address' = st.address
           /\ errors' = st.errors
           /\ sections' = [sections EXCEPT ![current_section] = @ \o st.bytes]
           /\ obs' = [obs EXCEPT !.adv2[t.line] = @ + (st.address - current_address),
                                 !.emit2[t.line] = @ \o st.bytes,
                                 !.start2[t.line] = First(@, current_address),
                                 !.raised2[t.line] = @ \/ st.raised]
    /\ UNCHANGED <<source, pc, tokens, symbols, warnings, current_section, result, encVars, lexer>>

\* what assemble() returns after pass 2
ReturnTrue(errs) == "True"

ReturnAfterPass2(errs) == IF Len(errs) = 0 THEN "True" ELSE "False"

Pass2End ==
    /\ pc = "pass2"
    /\ CurType(parser) = "EOF"
    /\ result' = ReturnAfterPass2(errors)
    /\ pc' = "done"
    /\ obs' = [obs EXCEPT !.pass2done = TRUE]
    /\ UNCHANGED <<source, tokens, parser, symbols, errors, warnings, current_address,
                   current_section, sections, encVars, lexer>>

Next ==
    \/ Tokenize
    \/ Pass1Advance
    \/ Pass1Label
    \/ Pass1Directive
    \/ Pass1Instruction
    \/ Pass1End
    \/ Pass2Advance
    \/ Pass2Label
    \/ Pass2Directive
    \/ Pass2Instruction
    \/ Pass2End

(***************************************************************************)
(* The sources: every program of 1..MaxLines lines over a set of lines.    *)
(***************************************************************************)
Programs(lines) == UNION {[1..n -> lines] : n \in 1..MaxLines}

\* a program that mixes labels, instructions, pseudo-instructions, data and
\* section directives, definitions and a malformed number
CoreLines ==
    {Line(<<Lbl("start"), Ins("nop")>>),
     Line(<<Ins("PUSH"), Reg("A0")>>),
     Line(<<Lbl("loop"), Ins("addi"), Reg("t0"), Comma, Imm(5)>>),
     Line(<<Ins("neg")>>),
     Line(<<Lbl("start")>>),
     Line(<<Dir(".equ"), Ins("start"), Comma, Imm(7)>>),
     Line(<<Dir(".set"), Ins("MEM_SIZE"), Comma, Ins("loop")>>),
     Line(<<Dir(".DATA")>>),
     Line(<<Dir(".word"), Imm(4660), Comma, Imm(43981)>>),
     Line(<<Ins("j"), Ins("start")>>),
     Line(<<Ins("li"), Reg("a0"), Comma, Imm(100), Comment>>),
     Line(<<Dir(".global"), Ins("loop")>>),
     BadNumber}

Init == InitWith(Programs(CoreLines))

Spec == Init /\ [][Next]_vars

(***************************************************************************)
(* The encoder alone: one call of encode_instruction on a mnemonic, an     *)
(* operand list and a current_address, over every real mnemonic, every     *)
(* register and every immediate, offset or number of the accepted range    *)
(* and EncMargin beyond it, and over operand lists that are too short or   *)
(* too long.                                                               *)
(***************************************************************************)
Registers == 0..7

EncAddress == 32

Mnemonics ==
    DOMAIN r_type_instructions \cup DOMAIN i_type_instructions
    \cup DOMAIN shift_instructions \cup DOMAIN b_type_instructions
    \cup DOMAIN s_type_instructions \cup DOMAIN l_type_instructions
    \cup {"j", "jal", "lui", "auipc", "ecall"}

\* the targets whose offset from address is in lo - EncMargin .. hi + EncMargin
Targets(address, lo, hi) == {address + 2 + o : o \in (lo - EncMargin)..(hi + EncMargin)}

Around(lo, hi) == (lo - EncMargin)..(hi + EncMargin)

\* the operand lists of the right length
OperandsOf(mnemonic, address) ==
    IF mnemonic = "jr" THEN {<<rd>> : rd \in Registers}
    ELSE IF mnemonic \in DOMAIN r_type_instructions
    THEN {<<rd, rs2>> : rd \in Registers, rs2 \in Registers}
    ELSE IF mnemonic \in DOMAIN i_type_instructions
    THEN {<<rd, imm>> : rd \in Registers, imm \in Around(-64, 63)}
    ELSE IF mnemonic \in DOMAIN shift_instructions
    THEN {<<rd, amount>> : rd \in Registers, amount \in Around(0, 15)}
    ELSE IF mnemonic \in {"bz", "bnz"}
    THEN {<<rs1, target>> : rs1 \in Registers, target \in Targets(address, -32, 28)}
    ELSE IF mnemonic \in DOMAIN b_type_instructions
    THEN {<<rs1, rs2, target>> :
            rs1 \in Registers, rs2 \in {0, 5}, target \in Targets(address, -32, 28)}
    ELSE IF mnemonic \in DOMAIN s_type_instructions \cup DOMAIN l_type_instructions
    THEN {<<r, offset, base>> : r \in Registers, offset \in Around(-8, 7), base \in {2, 3}}
    ELSE IF mnemonic = "j" THEN {<<target>> : target \in Targets(address, -1024, 1020)}
    ELSE IF mnemonic = "jal"
    THEN {<<rd, target>> : rd \in {0, 1}, target \in Targets(address, -1024, 1020)}
    ELSE IF mnemonic \in {"lui", "auipc"}
    THEN {<<rd, imm>> : rd \in Registers, imm \in Around(0, 511)}
    ELSE {<<svc>> : svc \in Around(0, 1023)}

\* operand lists of every length from none to four
AnyCount == {<<>>, <<1>>, <<1, 2>>, <<1, 2, 3>>, <<1, 2, 3, 4>>}

InitEnc ==
    /\ source = <<>>
    /\ pc = "encode"
    /\ tokens = <<>>
    /\ parser = NewParser
    /\ symbols = init_builtin_symbols
    /\ errors = <<>>
    /\ warnings = <<>>
    /\ current_address = EncAddress
    /\ current_section = ".text"
    /\ sections = [sec \in DOMAIN section_addresses |-> <<>>]
    /\ result = "running"
    /\ obs = NoObs(source)
    /\ encMnemonic \in Mnemonics \cup {"mul"}
    /\ encOperands \in OperandsOf(encMnemonic, current_address) \cup AnyCount
    /\ encResult = Raise("not called")
    /\ lexer = NewLexer(<<>>)

Encode ==
    /\ pc = "encode"
    /\ encResult' = encode_instruction(Lower(encMnemonic), encOperands, current_address)
    /\ pc' = "encoded"
    /\ UNCHANGED <<source, tokens, parser, symbols, errors, warnings, current_address,
                   current_section, sections, result, obs, encMnemonic, encOperands,
                   lexer>>

SpecEnc == InitEnc /\ [][Encode]_vars

(***************************************************************************)
(* The lexer alone: tokenize() on a text of up to MaxText characters, one  *)
(* step for the head of its loop, for the chain of ifs, and for each test  *)
(* and each turn of a scanning loop.  The lexer is one sequential run, so  *)
(* a step that can be taken is taken.                                      *)
(***************************************************************************)
InitLex ==
    /\ source = <<>>
    /\ pc = "lex"
    /\ tokens = <<>>
    /\ parser = NewParser
    /\ symbols = init_builtin_symbols
    /\ errors = <<>>
    /\ warnings = <<>>
    /\ current_address = 32
    /\ current_section = ".text"
    /\ sections = [sec \in DOMAIN section_addresses |-> <<>>]
    /\ result = "running"
    /\ obs = NoObs(source)
    /\ encMnemonic = ""
    /\ encOperands = <<>>
    /\ encResult = Raise("not called")
    /\ lexer \in {NewLexer(text) : text \in UNION {[1..n -> Chars] : n \in 0..MaxText}}

\* "while self.pos < len(self.text)", then skip_whitespace, or the EOF token
LexTop ==
    /\ pc = "lex"
    /\ lexer.at = "top"
    /\ lexer' = IF lexer.pos < Len(lexer.text)
                THEN Scan([lexer EXCEPT !.ret = "tokenize"], "whitespace")
                ELSE [Emit(lexer, "EOF") EXCEPT !.at = "done"]
    /\ UNCHANGED <<source, pc, tokens, parser, symbols, errors, warnings, current_address,
                   current_section, sections, result, obs, encVars>>

\* the test of a scanning loop
LexTest ==
    /\ pc = "lex"
    /\ lexer.at = "test"
    /\ lexer' = IF Continues(lexer) THEN [lexer EXCEPT !.at = "body"] ELSE Leave(lexer)
    /\ UNCHANGED <<source, pc, tokens, parser, symbols, errors, warnings, current_address,
                   current_section, sections, result, obs, encVars>>

\* one turn of the body of a scanning loop
LexBody ==
    /\ pc = "lex"
    /\ lexer.at = "body"
    /\ lexer' =
         CASE lexer.loop = "string" ->
                 [(IF current_char(lexer) = "\\" THEN lexer_advance(lexer_advance(lexer))
                   ELSE lexer_advance(lexer)) EXCEPT !.at = "test"]
           [] lexer.loop = "block" ->
                 IF current_char(lexer) = "*" /\ peek_char(lexer) = "/"
                 THEN Emit(lexer_advance(lexer_advance(lexer)), "COMMENT")
                 ELSE [lexer_advance(lexer) EXCEPT !.at = "test"]
           [] OTHER -> [lexer_advance(lexer) EXCEPT !.at = "test"]
    /\ UNCHANGED <<source, pc, tokens, parser, symbols, errors, warnings, current_address,
                   current_section, sections, result, obs, encVars>>

\* the chain of ifs of tokenize() after skip_whitespace
LexDispatch ==
    /\ pc = "lex"
    /\ lexer.at = "dispatch"
    /\ \E c \in {current_char(lexer)} :
       \E next \in {lexer_advance(lexer)} :
         lexer' =
           CASE c = "" -> [Emit(lexer, "EOF") EXCEPT !.at = "done"]
             [] c = "\n" -> Emit(next, "NEWLINE")
             [] c = "#" -> Scan(lexer, "comment")
             [] c = "/" /\ peek_char(lexer) = "*" -> Scan(lexer_advance(next), "block")
             [] c = "," -> Emit(next, "COMMA")
             [] c = ":" -> Emit(next, "COLON")
             [] c = "(" -> Emit(next, "LPAREN")
             [] c = ")" -> Emit(next, "RPAREN")
             [] c = "\"" -> Scan(next, "string")
             [] c = "'" ->
                   CharacterLiteral(next, IF current_char(next) = "\\"
                                          THEN lexer_advance(lexer_advance(next))
                                          ELSE lexer_advance(next))
             [] c = "-" /\ IsDigit(peek_char(lexer)) ->
                   read_number([next EXCEPT !.start_pos = lexer.pos + 1])
             [] IsDigit(c) -> read_number([lexer EXCEPT !.start_pos = lexer.pos])
             [] c = "." ->
                   Scan([next EXCEPT !.start_pos = lexer.pos, !.ret = "directive"],
                        "identifier")
             [] IsAlpha(c) \/ c = "_" ->
                   Scan([lexer EXCEPT !.start_pos = lexer.pos, !.ret = "name"], "identifier")
             [] OTHER -> [next EXCEPT !.at = "top"]
    /\ UNCHANGED <<source, pc, tokens, parser, symbols, errors, warnings, current_address,
                   current_section, sections, result, obs, encVars>>

\* after the skip_whitespace that follows an identifier: a label, or the
\* position is restored and the identifier is a register or a name
LexLabel ==
    /\ pc = "lex"
    /\ lexer.at = "label"
    /\ lexer' =
         IF current_char(lexer) = ":" THEN Emit(lexer_advance(lexer), "LABEL")
         ELSE Emit([lexer EXCEPT !.pos = lexer.old_pos],
                   IF is_register(SubSeq(lexer.text, lexer.start_pos + 1, lexer.old_pos))
                   THEN "REGISTER" ELSE "INSTRUCTION")
    /\ UNCHANGED <<source, pc, tokens, parser, symbols, errors, warnings, current_address,
                   current_section, sections, result, obs, encVars>>

NextLex ==
    \/ LexTop
    \/ LexTest
    \/ LexBody
    \/ LexDispatch
    \/ LexLabel

SpecLex == InitLex /\ [][NextLex]_vars /\ WF_vars(NextLex)

(***************************************************************************)
(* The outputs.  "output[start:start + len(data)] = data" on a bytearray:  *)
(* the slice is clipped to the array, and the bytes of data replace it     *)
(* whatever their number, so the array grows when data passes its end.     *)
(***************************************************************************)
SliceAssign(output, start, data) ==
    LET lo == IF start < Len(output) THEN start ELSE Len(output)
        stop == IF start + Len(data) < Len(output) THEN start + Len(data) ELSE Len(output)
        hi == IF stop < lo THEN lo ELSE stop
    IN  SubSeq(output, 1, lo) \o data \o SubSeq(output, hi + 1, Len(output))

\* get_binary_output: .text, then .data, over 65536 zero bytes
TextWritten(output, secs) ==
    SliceAssign(output, section_addresses[".text"], secs[".text"])

DataWritten(output, secs) ==
    SliceAssign(output, section_addresses[".data"], secs[".data"])

get_binary_output(secs) == DataWritten(TextWritten(Zeros(65536), secs), secs)

\* the digits of format specifier X
HexChars == <<"0", "1", "2", "3", "4", "5", "6", "7",
              "8", "9", "A", "B", "C", "D", "E", "F">>

\* f"{n:X}": the hexadecimal digits of n, as many as n needs
RECURSIVE HexDigits(_)
HexDigits(n) ==
    IF n < 16 THEN <<HexChars[n + 1]>>
    ELSE HexDigits(n \div 16) \o <<HexChars[(n % 16) + 1]>>

\* f"{n:0wX}": padded with zeros up to width digits, never cut
HexPadded(n, width) ==
    [i \in 1..(width - Len(HexDigits(n))) |-> "0"] \o HexDigits(n)

\* data.hex().upper(): two digits for each byte
HexOfBytes(data) ==
    [i \in 1..(2 * Len(data)) |->
        IF i % 2 = 1 THEN HexChars[(data[(i + 1) \div 2] \div 16) + 1]
        ELSE HexChars[(data[i \div 2] % 16) + 1]]

RECURSIVE SumOfBytes(_)
SumOfBytes(data) ==
    IF data = <<>> THEN 0 ELSE Head(data) + SumOfBytes(Tail(data))

\* the checksum of write_hex_line before it is formatted
HexChecksum(address, data, record_type) ==
    BitAnd(-(Len(data) + Shr(address, 8) + BitAnd(address, 255) + record_type
             + SumOfBytes(data)), 255)

\* write_hex_line: the characters of one record
write_hex_line(address, data, record_type) ==
    <<":">> \o HexPadded(Len(data), 2) \o HexPadded(address, 4)
            \o HexPadded(record_type, 2) \o HexOfBytes(data)
            \o HexPadded(HexChecksum(address, data, record_type), 2)

\* the records of one section: range(0, len(data), 16), none for an empty one
HexLinesOf(secs, sec) ==
    [k \in 1..((Len(secs[sec]) + 15) \div 16) |->
        write_hex_line(section_addresses[sec] + 16 * (k - 1),
                       SubSeq(secs[sec], 16 * (k - 1) + 1,
                              IF 16 * k < Len(secs[sec]) THEN 16 * k ELSE Len(secs[sec])),
                       0)]

EndOfFileLine == <<":", "0", "0", "0", "0", "0", "0", "0", "1", "F", "F">>

\* get_intel_hex_output: the lines that are joined by newlines
get_intel_hex_output(secs) ==
    HexLinesOf(secs, ".text") \o HexLinesOf(secs, ".data") \o <<EndOfFileLine>>

\* get_memory_file_output, dense: one loop "for i in range(0, len(data), 2)"
\* over a section; a pair of bytes whose second byte exists is written as a
\* word at start // 2 + i // 2, and a last byte without a second one is not
FillWords(memory, secs, sec) ==
    SubSeq(memory, 1, section_addresses[sec] \div 2)
        \o [j \in 1..(Len(secs[sec]) \div 2) |->
               BitOr(secs[sec][2 * j - 1], Shl(secs[sec][2 * j], 8))]
        \o SubSeq(memory, section_addresses[sec] \div 2 + Len(secs[sec]) \div 2 + 1,
                  Len(memory))

\* "for word in memory: lines.append(f"{word:04X}")" after the header
MemoryLines(memory) ==
    <<"# ZX16 Memory File">> \o [k \in 1..Len(memory) |-> HexPadded(memory[k], 4)]

\* get_memory_file_output(sparse=False): the lines that are joined by newlines;
\* "memory[...] = word" raises IndexError for a word past the 32768 words
get_memory_file_output(secs) ==
    IF \E sec \in {".text", ".data"} :
           section_addresses[sec] \div 2 + Len(secs[sec]) \div 2 > 32768
    THEN [raised |-> TRUE, lines |-> <<>>]
    ELSE [raised |-> FALSE,
          lines |-> MemoryLines(FillWords(FillWords(Zeros(32768), secs, ".text"),
                                          secs, ".data"))]

(***************************************************************************)
(* Sources of li with literal immediates on both sides of the two ends of  *)
(* [-64, 63], and the lui and ori they are compared with.                  *)
(***************************************************************************)
LiLines ==
    {Line(<<Ins("li"), Reg("a0"), Comma, Imm(-65)>>),
     Line(<<Ins("li"), Reg("a0"), Comma, Imm(-64)>>),
     Line(<<Ins("li"), Reg("t1"), Comma, Imm(63)>>),
     Line(<<Ins("li"), Reg("a0"), Comma, Imm(64)>>),
     Line(<<Ins("li"), Reg("a0"), Comma, Imm(100)>>),
     Line(<<Ins("li"), Reg("s0"), Comma, Imm(4660)>>),
     Line(<<Ins("li"), Reg("x7"), Comma, Imm(70000)>>),
     Line(<<Lbl("top"), Ins("li"), Reg("a1"), Comma, Imm(-1)>>),
     Line(<<Ins("lui"), Reg("a0"), Comma, Imm(0)>>),
     Line(<<Ins("ori"), Reg("a0"), Comma, Imm(64)>>),
     Line(<<Dir(".data")>>)}

InitLi == InitWith(Programs(LiLines))

SpecLi == InitLi /\ [][Next]_vars

(***************************************************************************)
(* Sources of every pseudo-instruction, with a label before and after and  *)
(* near and far.                                                           *)
(***************************************************************************)
PseudoLines ==
    {Line(<<Ins("push"), Reg("a0")>>),
     Line(<<Ins("pop"), Reg("a1")>>),
     Line(<<Ins("call"), Ins("fn")>>),
     Line(<<Lbl("fn"), Ins("ret")>>),
     Line(<<Ins("inc"), Reg("t0")>>),
     Line(<<Ins("dec"), Reg("t1")>>),
     Line(<<Ins("neg"), Reg("s0")>>),
     Line(<<Ins("not"), Reg("s1")>>),
     Line(<<Ins("clr"), Reg("x7")>>),
     Line(<<Ins("nop")>>),
     Line(<<Ins("la"), Reg("a0"), Comma, Ins("fn")>>),
     Line(<<Dir(".org"), Imm(600)>>)}

InitPseudo == InitWith(Programs(PseudoLines))

SpecPseudo == InitPseudo /\ [][Next]_vars

(***************************************************************************)
(* Sources of symbol names: operands that name a label, a constant or      *)
(* nothing, constants of a literal and of another name, a label past .org. *)
(***************************************************************************)
SymLines ==
    {Line(<<Ins("j"), Ins("nowhere")>>),
     Line(<<Ins("la"), Reg("a0"), Comma, Ins("nowhere")>>),
     Line(<<Ins("beq"), Reg("a0"), Reg("a1"), Comma, Ins("nowhere")>>),
     Line(<<Lbl("loop"), Ins("addi"), Reg("t0"), Comma, Imm(5)>>),
     Line(<<Ins("li"), Reg("a1"), Comma, Ins("loop")>>),
     Line(<<Dir(".equ"), Ins("K"), Comma, Ins("loop")>>),
     Line(<<Dir(".set"), Ins("J2"), Comma, Ins("K")>>),
     Line(<<Dir(".equ"), Ins("NEG"), Comma, Imm(-1)>>),
     Line(<<Dir(".org"), Imm(70000)>>),
     Line(<<Lbl("far"), Ins("nop")>>),
     Line(<<Ins("j"), Ins("K")>>)}

InitSym == InitWith(Programs(SymLines))

SpecSym == InitSym /\ [][Next]_vars

(***************************************************************************)
(* Sources of data: the three sections, words, bytes, a small and a large  *)
(* .space, and instructions among them.                                    *)
(***************************************************************************)
DataLines ==
    {Line(<<Dir(".data")>>),
     Line(<<Dir(".bss")>>),
     Line(<<Dir(".word"), Imm(4660), Comma, Imm(43981)>>),
     Line(<<Dir(".word"), Imm(-2)>>),
     Line(<<Dir(".space"), Imm(28)>>),
     Line(<<Dir(".space"), Imm(32769)>>),
     Line(<<Lbl("top"), Ins("li"), Reg("a0"), Comma, Imm(100)>>),
     Line(<<Ins("add"), Reg("t0"), Comma, Imm(-1)>>)}

InitData == InitWith(Programs(DataLines))

SpecData == InitData /\ [][Next]_vars

(***************************************************************************)
(* Sources that leave a section and enter one again, move the address with *)
(* .org, and put an odd number of bytes into a section.                    *)
(***************************************************************************)
SectLines ==
    {Line(<<Lbl("start"), Ins("nop")>>),
     Line(<<Ins("addi"), Reg("t0"), Comma, Imm(5)>>),
     Line(<<Dir(".data")>>),
     Line(<<Dir(".text")>>),
     Line(<<Dir(".byte"), Imm(7)>>),
     Line(<<Dir(".word"), Imm(4660)>>),
     Line(<<Dir(".string"), Str(<<65, 66>>)>>),
     Line(<<Dir(".org"), Imm(48)>>)}

InitSect == InitWith(Programs(SectLines))

SpecSect == InitSect /\ [][Next]_vars

(***************************************************************************)
(* Properties.                                                             *)
(***************************************************************************)
Lines == 1..Len(source)

\* pass 2 has handled the instruction or data directive of line l
Emitted(l) == obs.start2[l] # -1

\* C1: for every statement, the advance of current_address in pass 1 equals
\* the number of bytes pass 2 appends for it, also when pass 2 records an
\* encoding error for it
C1_SizeEqualsBytes ==
    obs.pass2done => \A l \in Lines : obs.size1[l] = Len(obs.emit2[l])

\* the token after the label at index i, past newlines, comments and labels,
\* is an instruction or a data directive
RECURSIVE FollowedByCode(_)
FollowedByCode(i) ==
    IF i >= Len(tokens) THEN FALSE
    ELSE IF tokens[i + 1].type \in {"NEWLINE", "COMMENT", "LABEL"} THEN FollowedByCode(i + 1)
    ELSE \/ tokens[i + 1].type = "INSTRUCTION"
         \/ tokens[i + 1].type = "DIRECTIVE" /\ IsDataDirective(Lower(tokens[i + 1].value))

\* C2: the value pass 1 stores for a label equals current_address of pass 2
\* when pass 2 starts the instruction or data directive that follows the label
C2_LabelAddresses ==
    \A i \in 1..Len(obs.label2) :
        FollowedByCode(obs.label2[i].at)
            => symbols[obs.label2[i].name].value = obs.label2[i].address

\* C3: when pass 2 records an encoding error for an instruction it advances
\* current_address by the size pass 1 gave the instruction, so that every
\* later statement is at the same address in both passes
C3_ErrorKeepsAlignment ==
    \A l \in Lines :
        obs.raised2[l] =>
            /\ obs.adv2[l] = obs.size1[l]
            /\ \A k \in Lines : k > l /\ Emitted(k) => obs.start2[k] = obs.start1[k]

\* line l is "li rd, imm" with a literal immediate, after an optional label
LiLine(l) ==
    LET toks == IF source[l].toks # <<>> /\ source[l].toks[1].type = "LABEL"
                THEN Tail(source[l].toks) ELSE source[l].toks
    IN  /\ Len(toks) = 4
        /\ toks[1] = Ins("li")
        /\ toks[2].type = "REGISTER"
        /\ toks[4].type = "IMMEDIATE"

LiRd(l) == register_map[source[l].toks[Len(source[l].toks) - 2].value]
LiImm(l) == source[l].toks[Len(source[l].toks)].num

\* a word as two bytes, low byte first
LowHigh(w) == <<w % 256, (w \div 256) % 256>>

\* the word of the I-type format: imm7[15:9] | rd[8:6] | func3[5:3] | 001
ITypeWord(func3, rd, imm) == ((imm % 128) * 512) + (rd * 64) + (func3 * 8) + 1

\* the direct encodings of "lui rd, (imm >> 7) & 0x1FF" and "ori rd, imm & 0x7F"
LuiOri(rd, imm) ==
    LowHigh(encode_instruction("lui", <<rd, (imm \div 128) % 512>>, 0).word)
    \o LowHigh(encode_instruction("ori", <<rd, imm % 128>>, 0).word)

LiBytes(l) ==
    IF -64 <= LiImm(l) /\ LiImm(l) <= 63
    THEN LowHigh(ITypeWord(7, LiRd(l), LiImm(l)))
    ELSE LuiOri(LiRd(l), LiImm(l))

LiA0_100(l) == LiRd(l) = 6 /\ LiImm(l) = 100

\* lines j and k are "lui a0, 0" and "ori a0, 64", emitted by pass 2
DirectLuiOri(j, k) ==
    /\ source[j].toks = <<Ins("lui"), Reg("a0"), Comma, Imm(0)>>
    /\ source[k].toks = <<Ins("ori"), Reg("a0"), Comma, Imm(64)>>
    /\ Emitted(j)
    /\ Emitted(k)

\* what C4 says of every li with a literal immediate
LiAsExpanded(l) ==
    /\ obs.emit2[l] = LiBytes(l)
    /\ LiImm(l) = 63 => Len(obs.emit2[l]) = 2
    /\ LiImm(l) = 64 /\ LiRd(l) = 6 =>
         \A j, k \in Lines :
             DirectLuiOri(j, k) => obs.emit2[l] = obs.emit2[j] \o obs.emit2[k]

\* C4 as stated: li with a literal in [-64, 63] is one I-type word of func3 7,
\* any other literal the two words of lui and ori, "li rd, 64" the words of
\* "lui rd, 0" and "ori rd, 64", and "li a0, 100" the bytes 86 01 99 C9
C4_LiBytesAsStated ==
    \A l \in Lines :
        LiLine(l) /\ Emitted(l) =>
            /\ LiAsExpanded(l)
            /\ LiA0_100(l) => obs.emit2[l] = <<134, 1, 153, 201>>

\* C4 amended: li with a literal in [-64, 63] is one I-type word of func3 7,
\* any other literal the two words of lui and ori, "li rd, 64" the words of
\* "lui rd, 0" and "ori rd, 64", and "li a0, 100" the bytes 86 01 A1 C9
C4_LiBytes ==
    \A l \in Lines :
        LiLine(l) /\ Emitted(l) =>
            /\ LiAsExpanded(l)
            /\ LiA0_100(l) => obs.emit2[l] = <<134, 1, 161, 201>>

\* pass 2 has emitted an li of one word and an li of two words
C4_Witness ==
    /\ obs.pass2done
    /\ \E l \in Lines : LiLine(l) /\ LiImm(l) = 100 /\ Len(obs.emit2[l]) = 4
    /\ \E l \in Lines : LiLine(l) /\ LiImm(l) = 63 /\ Len(obs.emit2[l]) = 2

\* pass 2 has emitted "li a0, 64" and after it "lui a0, 0" and "ori a0, 64"
C4_WitnessDirect ==
    /\ obs.pass2done
    /\ \E l, j, k \in Lines : LiLine(l) /\ LiImm(l) = 64 /\ LiRd(l) = 6 /\ DirectLuiOri(j, k)

EncOffset == encOperands[Len(encOperands)] - (current_address + 2)

RightCount == encOperands \in OperandsOf(encMnemonic, current_address)

\* C5: the I-type encoder accepts an immediate exactly when it is in
\* [-64, 63], and then imm7 is its 7-bit two's complement
C5_ITypeRange ==
    pc = "encoded" /\ encMnemonic \in DOMAIN i_type_instructions /\ RightCount =>
        /\ encResult.ok <=> (-64 <= encOperands[2] /\ encOperands[2] <= 63)
        /\ encResult.ok => encResult.word \div 512 = encOperands[2] % 128

\* the operands are in the range the format documents
Documented(mnemonic, operands, address) ==
    LET offset == operands[Len(operands)] - (address + 2)
    IN  /\ mnemonic \in DOMAIN i_type_instructions => operands[2] \in -64..63
        /\ mnemonic \in DOMAIN shift_instructions => operands[2] \in 0..15
        /\ mnemonic \in DOMAIN b_type_instructions => offset % 2 = 0 /\ offset \in -32..28
        /\ mnemonic \in {"j", "jal"} => offset % 2 = 0 /\ offset \in -1024..1020
        /\ mnemonic \in {"lui", "auipc"} => operands[2] \in 0..511
        /\ mnemonic = "ecall" => operands[1] \in 0..1023
        /\ mnemonic \in DOMAIN s_type_instructions \cup DOMAIN l_type_instructions =>
             operands[2] \in -8..7

\* the field of width bits of a word whose lowest bit is bit lo
Field(word, lo, width) == (word \div Pow2(lo)) % Pow2(width)

\* a field of width bits read as two's complement
Signed(v, width) == IF v >= Pow2(width - 1) THEN v - Pow2(width) ELSE v

\* the operands read from the fields of the word, by the layout of the format
Decode(mnemonic, word, address) ==
    LET hi3 == Field(word, 9, 3)
        mid3 == Field(word, 6, 3)
        imm4 == Signed(Field(word, 12, 4), 4)
        imm9 == (Field(word, 9, 6) * 8) + Field(word, 3, 3)
    IN  IF mnemonic = "jr" THEN <<mid3>>
        ELSE IF mnemonic \in DOMAIN r_type_instructions THEN <<mid3, hi3>>
        ELSE IF mnemonic \in DOMAIN i_type_instructions
        THEN <<mid3, Signed(Field(word, 9, 7), 7)>>
        ELSE IF mnemonic \in DOMAIN shift_instructions THEN <<mid3, Field(word, 9, 4)>>
        ELSE IF mnemonic \in {"bz", "bnz"} THEN <<mid3, address + 2 + (2 * imm4)>>
        ELSE IF mnemonic \in DOMAIN b_type_instructions
        THEN <<mid3, hi3, address + 2 + (2 * imm4)>>
        ELSE IF mnemonic \in DOMAIN s_type_instructions THEN <<hi3, imm4, mid3>>
        ELSE IF mnemonic \in DOMAIN l_type_instructions THEN <<mid3, imm4, hi3>>
        ELSE IF mnemonic = "j" THEN <<address + 2 + (2 * Signed(imm9, 9))>>
        ELSE IF mnemonic = "jal" THEN <<mid3, address + 2 + (2 * Signed(imm9, 9))>>
        ELSE IF mnemonic \in {"lui", "auipc"} THEN <<mid3, imm9>>
        ELSE <<Field(word, 6, 10)>>

\* C6: for every mnemonic and every accepted operand list in the documented
\* range of the format (B-type offsets in [-32, 28], J-type offsets in
\* [-1024, 1020]), decoding the word by the field layout of the format
\* recovers the operands
C6_RoundTrip ==
    pc = "encoded" /\ encResult.ok /\ RightCount
    /\ Documented(encMnemonic, encOperands, current_address) =>
        Decode(encMnemonic, encResult.word, current_address) = encOperands

\* the round trip of every format but the B-type and the J-type
C6_RoundTripOthers ==
    pc = "encoded" /\ encResult.ok /\ RightCount
    /\ Documented(encMnemonic, encOperands, current_address)
    /\ encMnemonic \notin DOMAIN b_type_instructions \cup {"j", "jal"} =>
        Decode(encMnemonic, encResult.word, current_address) = encOperands

\* the round trip of B-type offsets in [-16, 14] and J-type offsets in [-512, 510]
C6_RoundTripNear ==
    (/\ pc = "encoded"
     /\ encResult.ok
     /\ RightCount
     /\ \/ encMnemonic \in DOMAIN b_type_instructions /\ EncOffset \in -16..14
        \/ encMnemonic \in {"j", "jal"} /\ EncOffset \in -512..510)
    => Decode(encMnemonic, encResult.word, current_address) = encOperands

\* C7: branch, jump, U-type, shift, ecall, load and store operands are
\* accepted exactly in the documented range, and otherwise the encoder raises
C7_OperandRanges ==
    pc = "encoded" /\ RightCount =>
        /\ encMnemonic \in DOMAIN b_type_instructions =>
             (encResult.ok <=> (EncOffset % 2 = 0 /\ -32 <= EncOffset /\ EncOffset <= 28))
        /\ encMnemonic \in {"j", "jal"} =>
             (encResult.ok <=> (EncOffset % 2 = 0 /\ -1024 <= EncOffset /\ EncOffset <= 1020))
        /\ encMnemonic \in {"lui", "auipc"} =>
             (encResult.ok <=> (0 <= encOperands[2] /\ encOperands[2] <= 511))
        /\ encMnemonic \in DOMAIN shift_instructions =>
             (encResult.ok <=> (0 <= encOperands[2] /\ encOperands[2] <= 15))
        /\ encMnemonic = "ecall" =>
             (encResult.ok <=> (0 <= encOperands[1] /\ encOperands[1] <= 1023))
        /\ encMnemonic \in DOMAIN s_type_instructions \cup DOMAIN l_type_instructions =>
             (encResult.ok <=> (-8 <= encOperands[2] /\ encOperands[2] <= 7))

\* a branch to the offset 30 has been rejected
C7_Witness ==
    /\ pc = "encoded"
    /\ encMnemonic = "beq"
    /\ RightCount
    /\ EncOffset = 30
    /\ ~encResult.ok

\* line l without its label
Unlabelled(l) ==
    IF source[l].toks # <<>> /\ source[l].toks[1].type = "LABEL"
    THEN Tail(source[l].toks) ELSE source[l].toks

\* line l is a pseudo-instruction with the operands the table gives it
PseudoLine(l) ==
    LET toks == Unlabelled(l)
    IN  /\ toks # <<>>
        /\ toks[1].type = "INSTRUCTION"
        /\ \/ toks[1].value \in {"nop", "ret"} /\ Len(toks) = 1
           \/ /\ toks[1].value \in {"push", "pop", "inc", "dec", "neg", "not", "clr"}
              /\ Len(toks) = 2
              /\ toks[2].type = "REGISTER"
           \/ /\ toks[1].value = "call"
              /\ Len(toks) = 2
              /\ toks[2].type = "INSTRUCTION"
              /\ toks[2].value \in DOMAIN symbols
           \/ /\ toks[1].value = "la"
              /\ Len(toks) = 4
              /\ toks[2].type = "REGISTER"
              /\ toks[4].type = "INSTRUCTION"
              /\ toks[4].value \in DOMAIN symbols

\* the real instructions of the expansion table for the pseudo-instruction
\* of line l, which is at the address PC
Table(l, PC) ==
    LET toks == Unlabelled(l)
        m == toks[1].value
        r == register_map[toks[2].value]
        off == symbols[toks[4].value].value - PC
    IN  CASE m = "push" -> << <<"addi", <<2, -2>> >>, <<"sw", <<r, 0, 2>> >> >>
          [] m = "pop" -> << <<"lw", <<r, 0, 2>> >>, <<"addi", <<2, 2>> >> >>
          [] m = "call" -> << <<"jal", <<1, symbols[toks[2].value].value>> >> >>
          [] m = "ret" -> << <<"jr", <<1>> >> >>
          [] m = "inc" -> << <<"addi", <<r, 1>> >> >>
          [] m = "dec" -> << <<"addi", <<r, -1>> >> >>
          [] m = "neg" -> << <<"xori", <<r, -1>> >>, <<"addi", <<r, 1>> >> >>
          [] m = "not" -> << <<"xori", <<r, -1>> >> >>
          [] m = "clr" -> << <<"xor", <<r, r>> >> >>
          [] m = "nop" -> << <<"add", <<0, 0>> >> >>
          [] m = "la" -> << <<"auipc", <<r, (off \div 128) % 512>> >>,
                            <<"addi", <<r, off % 128>> >> >>

\* the words of a sequence of real instructions, the first at address
RECURSIVE TableBytes(_, _)
TableBytes(list, address) ==
    IF list = <<>> THEN <<>>
    ELSE LowHigh(encode_instruction(Head(list)[1], Head(list)[2], address).word)
         \o TableBytes(Tail(list), address + 2)

\* C8: pass 2 emits each pseudo-instruction as the words of the real
\* instructions of the expansion table, in order; nop is the word 0x0000
C8_PseudoExpansions ==
    \A l \in Lines :
        PseudoLine(l) /\ Emitted(l) /\ ~obs.raised2[l] =>
            /\ obs.emit2[l] = TableBytes(Table(l, obs.start2[l]), obs.start2[l])
            /\ Unlabelled(l)[1].value = "nop" => obs.emit2[l] = <<0, 0>>

\* pass 2 has emitted a push and an la of two words each
C8_Witness ==
    /\ obs.pass2done
    /\ \E l \in Lines : /\ PseudoLine(l)
                        /\ Unlabelled(l)[1].value = "push"
                        /\ Len(obs.emit2[l]) = 4
    /\ \E l \in Lines : /\ PseudoLine(l)
                        /\ Unlabelled(l)[1].value = "la"
                        /\ Len(obs.emit2[l]) = 4

\* pass 1 is at a label, or at .equ or .set, that names a defined symbol
DefinesAgain ==
    /\ pc = "pass1"
    /\ \/ /\ CurType(parser) = "LABEL"
          /\ tokens[parser.cur].value \in DOMAIN symbols
          /\ symbols[tokens[parser.cur].value].defined
       \/ /\ CurType(parser) = "DIRECTIVE"
          /\ Lower(tokens[parser.cur].value) \in {".equ", ".set"}
          /\ CurType(Advance(parser)) = "INSTRUCTION"
          /\ tokens[Advance(parser).cur].value \in DOMAIN symbols
          /\ symbols[tokens[Advance(parser).cur].value].defined

\* C9: a defined name keeps its value, its line and its flags through a later
\* definition of the same name, which records an error; the built-in symbols
\* keep their initial values in every state
C9_DefinedOnce ==
    /\ [](\A n \in DOMAIN builtins :
             n \in DOMAIN symbols /\ symbols[n].value = builtins[n])
    /\ [][/\ \A n \in DOMAIN symbols :
                symbols[n].defined =>
                    /\ n \in DOMAIN symbols'
                    /\ symbols'[n].defined
                    /\ symbols'[n].value = symbols[n].value
                    /\ symbols'[n].line = symbols[n].line
          /\ DefinesAgain => symbols' = symbols /\ Len(errors') = Len(errors) + 1]_vars

\* a second definition of a label has been refused, and the label has the
\* value of its first definition
C9_Witness ==
    /\ \E i \in 1..Len(errors) : errors[i].message = "already defined" /\ errors[i].line = 3
    /\ "start" \in DOMAIN symbols
    /\ symbols["start"].line = 1
    /\ symbols["start"].value = 32

\* C10: assemble() returns False exactly when the error list is not empty
\* when it returns; no warning makes it return False
C10_ReturnValue ==
    pc = "done" =>
        /\ result \in {"True", "False"}
        /\ result = "False" <=> Len(errors) > 0

\* assemble() has returned False after an error of pass 2
C10_Witness ==
    /\ pc = "done"
    /\ obs.pass2done
    /\ result = "False"
    /\ Len(errors) > 0

\* the operand tokens from p to the end of the statement that name a symbol
\* absent from the symbol table
RECURSIVE UnknownOperands(_)
UnknownOperands(p) ==
    IF CurType(p) \in EndOfOperands THEN 0
    ELSE (IF CurType(p) = "INSTRUCTION" /\ tokens[p.cur].value \notin DOMAIN symbols
          THEN 1 ELSE 0) + UnknownOperands(Advance(p))

\* the register, immediate and name operands from p to the end of the
\* statement, an absent name read as 0
RECURSIVE OperandsWithZero(_)
OperandsWithZero(p) ==
    IF CurType(p) \in EndOfOperands THEN <<>>
    ELSE IF CurType(p) = "REGISTER"
    THEN <<register_map[Lower(tokens[p.cur].value)]>> \o OperandsWithZero(Advance(p))
    ELSE IF CurType(p) = "IMMEDIATE"
    THEN <<tokens[p.cur].num>> \o OperandsWithZero(Advance(p))
    ELSE IF CurType(p) = "INSTRUCTION"
    THEN <<IF tokens[p.cur].value \in DOMAIN symbols
           THEN symbols[tokens[p.cur].value].value ELSE 0>>
         \o OperandsWithZero(Advance(p))
    ELSE OperandsWithZero(Advance(p))

\* the errors of errs that report a name absent from the symbol table
RECURSIVE UnknownErrors(_)
UnknownErrors(errs) ==
    IF errs = <<>> THEN 0
    ELSE (IF Head(errs).message = "unknown symbol" THEN 1 ELSE 0) + UnknownErrors(Tail(errs))

\* line l holds an instruction, after its label if it has one
InstructionLine(l) == Unlabelled(l) # <<>> /\ Unlabelled(l)[1].type = "INSTRUCTION"

\* C11: in pass 2 every operand that names a symbol absent from the symbol
\* table records exactly one error and is replaced by 0; the instruction is
\* then encoded with 0, pass 2 goes on, and it ends at EOF with every
\* instruction of the source processed
C11_UnknownSymbolIsZero ==
    /\ [](obs.pass2done => \A l \in Lines : InstructionLine(l) => Emitted(l))
    /\ [][pc = "pass2" /\ CurType(parser) = "INSTRUCTION" =>
            /\ UnknownErrors(errors')
                 = UnknownErrors(errors) + UnknownOperands(Advance(parser))
            /\ sections'[current_section]
                 = sections[current_section]
                   \o GenerateCode(Lower(tokens[parser.cur].value),
                                   OperandsWithZero(Advance(parser)),
                                   current_address).bytes
            /\ pc' = "pass2"]_vars

\* pass 2 has met an absent name on line 1, encoded the jump to 0 and then
\* emitted line 2
C11_Witness ==
    /\ obs.pass2done
    /\ Len(source) >= 2
    /\ source[1].toks = <<Ins("j"), Ins("nowhere")>>
    /\ \E i \in 1..Len(errors) : errors[i].message = "unknown symbol" /\ errors[i].line = 1
    /\ obs.emit2[1] = LowHigh(encode_instruction("j", <<0>>, 32).word)
    /\ Len(obs.emit2[2]) > 0

\* the format tag of a mnemonic: R 0, I and shifts 1, B 2, S 3, L 4, J 5, U 6,
\* SYS 7
FormatTag(mnemonic) ==
    IF mnemonic \in DOMAIN r_type_instructions THEN 0
    ELSE IF mnemonic \in DOMAIN i_type_instructions \cup DOMAIN shift_instructions THEN 1
    ELSE IF mnemonic \in DOMAIN b_type_instructions THEN 2
    ELSE IF mnemonic \in DOMAIN s_type_instructions THEN 3
    ELSE IF mnemonic \in DOMAIN l_type_instructions THEN 4
    ELSE IF mnemonic \in {"j", "jal"} THEN 5
    ELSE IF mnemonic \in {"lui", "auipc"} THEN 6
    ELSE 7

\* C12: every word the encoder produces has the format tag of its mnemonic
\* in bits [2:0], whatever the operands
C12_FormatTag ==
    pc = "encoded" /\ encResult.ok =>
        /\ encMnemonic \in Mnemonics
        /\ encResult.word % 8 = FormatTag(encMnemonic)

\* an ecall of the largest number has been encoded with the tag 7
C12_Witness ==
    /\ pc = "encoded"
    /\ encMnemonic = "ecall"
    /\ encOperands = <<1023>>
    /\ encResult.ok
    /\ encResult.word % 8 = 7

\* the index in tokens of the statement of line l, after its label
StatementAt(l) ==
    LET first == CHOOSE i \in 1..Len(tokens) :
                     tokens[i].line = l /\ \A j \in 1..(i - 1) : tokens[j].line # l
    IN  IF tokens[first].type = "LABEL" THEN first + 1 ELSE first

\* the words the encoder returns for a list of real instructions, the first
\* encoded at address
RECURSIVE EncodedWords(_, _)
EncodedWords(list, address) ==
    IF list = <<>> THEN <<>>
    ELSE <<encode_instruction(Head(list)[1], Head(list)[2], address).word>>
         \o EncodedWords(Tail(list), address + 2)

\* the words the encoder returns for the instruction of line l
WordsOfLine(l) ==
    LET i == StatementAt(l)
        after == [pos |-> i + 1, cur |-> i + 1]
        operands == ParseOperands(after, <<>>, <<>>, l).operands
    IN  EncodedWords(Expanded(Lower(tokens[i].value), operands, obs.start2[l]).list,
                     obs.start2[l])

\* the IMMEDIATE values of a .word line
RECURSIVE WordValues(_)
WordValues(toks) ==
    IF toks = <<>> THEN <<>>
    ELSE (IF Head(toks).type = "IMMEDIATE" THEN <<Head(toks).num>> ELSE <<>>)
         \o WordValues(Tail(toks))

WordLine(l) == source[l].toks # <<>> /\ source[l].toks[1] = Dir(".word")

\* bytes holds the words of ws in order, two bytes a word, low byte first
PairsEqual(bytes, ws) ==
    /\ Len(bytes) = 2 * Len(ws)
    /\ \A k \in 1..Len(ws) : bytes[(2 * k) - 1] + (256 * bytes[2 * k]) = ws[k]

\* the words of ws reduced modulo 2^16
Mod16(ws) == [k \in 1..Len(ws) |-> ws[k] % 65536]

\* C13: every encoded instruction word w and every .word value v appends two
\* bytes, low byte first, that read back as w and as v mod 2^16;
\* ".word 0x1234, 0xABCD" appends 34 12 CD AB
C13_LittleEndian ==
    \A l \in Lines :
        /\ InstructionLine(l) /\ Emitted(l) /\ ~obs.raised2[l] =>
             PairsEqual(obs.emit2[l], WordsOfLine(l))
        /\ WordLine(l) /\ Emitted(l) =>
             /\ PairsEqual(obs.emit2[l], Mod16(WordValues(source[l].toks)))
             /\ WordValues(source[l].toks) = <<4660, 43981>> =>
                  obs.emit2[l] = <<52, 18, 205, 171>>

\* the same with the instruction word reduced modulo 2^16 as the .word value is
C13_LittleEndianMod16 ==
    \A l \in Lines :
        /\ InstructionLine(l) /\ Emitted(l) /\ ~obs.raised2[l] =>
             PairsEqual(obs.emit2[l], Mod16(WordsOfLine(l)))
        /\ WordLine(l) /\ Emitted(l) =>
             PairsEqual(obs.emit2[l], Mod16(WordValues(source[l].toks)))

\* assemble() has accepted the source
Accepted == pc = "done" /\ result = "True"

\* image is 65536 bytes, with text at 0x0020, data at 0x8000 and zero elsewhere
ImageAsClaimed(image, text, data) ==
    /\ Len(image) = 65536
    /\ \A i \in 1..Len(text) : image[32 + i] = text[i]
    /\ \A i \in 1..Len(data) : image[32768 + i] = data[i]
    /\ \A a \in 1..65536 :
           ~(32 < a /\ a <= 32 + Len(text)) /\ ~(32768 < a /\ a <= 32768 + Len(data))
               => image[a] = 0

\* C14: for every accepted source get_binary_output() returns 65,536 bytes,
\* byte i of .text at offset 0x0020 + i, byte i of .data at offset 0x8000 + i,
\* and zero everywhere else
C14_BinaryImage ==
    Accepted =>
        \E image \in {get_binary_output(sections)} :
            ImageAsClaimed(image, sections[".text"], sections[".data"])

\* the same for the sources whose sections end inside the memory and before
\* the next section
C14_BinaryImageOfFittingSections ==
    Accepted /\ Len(sections[".text"]) <= 32736 /\ Len(sections[".data"]) <= 32768 =>
        \E image \in {get_binary_output(sections)} :
            ImageAsClaimed(image, sections[".text"], sections[".data"])

\* C15: in every state the buffer of each section is at most
\* MEM_SIZE - base(section) bytes long
C15_SectionBound ==
    \A sec \in DOMAIN section_addresses :
        Len(sections[sec]) <= 65536 - section_addresses[sec]

\* pass 2 is at ".space N" with a literal N that is not negative
AtSpace ==
    /\ pc = "pass2"
    /\ CurType(parser) = "DIRECTIVE"
    /\ Lower(tokens[parser.cur].value) = ".space"
    /\ CurType(Advance(parser)) = "IMMEDIATE"
    /\ tokens[Advance(parser).cur].num >= 0

SpaceCount == tokens[Advance(parser).cur].num

\* the source is ".bss" and then ".space N"
BssSpace ==
    /\ Len(source) = 2
    /\ source[1].toks = <<Dir(".bss")>>
    /\ Len(source[2].toks) = 2
    /\ source[2].toks[1] = Dir(".space")
    /\ source[2].toks[2].type = "IMMEDIATE"
    /\ source[2].toks[2].num >= 0

\* C16: ".space N" appends N zero bytes to the current section, nothing to
\* the other sections, and advances current_address by N; after ".bss" and
\* ".space N" the .bss buffer is N zero bytes, current_address is 0x9000 + N
\* and the binary image is zero from 0x9000 on
C16_SpaceAppendsZeros ==
    /\ [](BssSpace /\ obs.pass2done =>
            /\ sections[".bss"] = [i \in 1..source[2].toks[2].num |-> 0]
            /\ current_address = 36864 + source[2].toks[2].num
            /\ \E image \in {get_binary_output(sections)} :
                   \A a \in 36865..Len(image) : image[a] = 0)
    /\ [][AtSpace =>
            /\ Len(sections'[current_section]) = Len(sections[current_section]) + SpaceCount
            /\ sections'[current_section]
                 = sections[current_section] \o [i \in 1..SpaceCount |-> 0]
            /\ \A sec \in DOMAIN sections :
                   sec # current_section => sections'[sec] = sections[sec]
            /\ current_address' = current_address + SpaceCount]_vars

\* ".bss" and ".space 28" have been assembled into 28 bytes of .bss
C16_Witness ==
    /\ BssSpace
    /\ obs.pass2done
    /\ source[2].toks[2].num = 28
    /\ Len(sections[".bss"]) = 28
    /\ current_address = 36892

\* what a reader of a record finds: the value of a digit, of the byte written
\* at characters k and k+1, and the fields of the record
HexValue(c) == CHOOSE v \in 0..15 : HexChars[v + 1] = c

ByteAt(line, k) == 16 * HexValue(line[k]) + HexValue(line[k + 1])

RecordCount(line) == ByteAt(line, 2)

RecordAddress(line) == 256 * ByteAt(line, 4) + ByteAt(line, 6)

RecordType(line) == ByteAt(line, 8)

\* a colon and then count + 5 bytes of two digits each
WellFormed(line) ==
    /\ Len(line) >= 11
    /\ line[1] = ":"
    /\ Len(line) = 11 + 2 * RecordCount(line)

\* the bytes of a record, each with the address it is for
RecordPairs(line) ==
    [j \in 1..RecordCount(line) |-> <<RecordAddress(line) + j - 1, ByteAt(line, 8 + 2 * j)>>]

\* the bytes of records lo..hi, in the order of the output
RECURSIVE PairsOfLines(_, _, _)
PairsOfLines(lines, lo, hi) ==
    IF hi < lo THEN <<>>
    ELSE IF lo = hi THEN RecordPairs(lines[lo])
    ELSE PairsOfLines(lines, lo, (lo + hi) \div 2)
             \o PairsOfLines(lines, (lo + hi) \div 2 + 1, hi)

\* the bytes of a section, each with base(section) + offset
SectionPairs(secs, sec) ==
    [i \in 1..Len(secs[sec]) |-> <<section_addresses[sec] + i - 1, secs[sec][i]>>]

SectionOrders ==
    {order \in [1..3 -> DOMAIN section_addresses] :
        \A i, j \in 1..3 : i # j => order[i] # order[j]}

\* lines is data records of at most 16 bytes that give every byte of every
\* section once, section after section, and then the end-of-file record
HexAsClaimed(lines, secs) ==
    /\ lines[Len(lines)] = EndOfFileLine
    /\ \A k \in 1..(Len(lines) - 1) :
           /\ WellFormed(lines[k])
           /\ RecordType(lines[k]) = 0
           /\ RecordCount(lines[k]) <= 16
    /\ \E pairs \in {PairsOfLines(lines, 1, Len(lines) - 1)} :
           \E order \in SectionOrders :
               pairs = SectionPairs(secs, order[1]) \o SectionPairs(secs, order[2])
                           \o SectionPairs(secs, order[3])

\* C17: the Intel HEX output of an accepted source is, for each of .text,
\* .data and .bss that is not empty, data records of at most 16 bytes that
\* cover every byte of the section exactly once at base(section) + offset in
\* increasing offset order, and its last line is :00000001FF
C17_HexCoversSections ==
    Accepted =>
        \E lines \in {get_intel_hex_output(sections)} : HexAsClaimed(lines, sections)

\* the same when only .text and .data count and both end at or before 0xFFFF
C17_HexCoversTextAndData ==
    Accepted /\ Len(sections[".text"]) <= 65504 /\ Len(sections[".data"]) <= 32768 =>
        \E lines \in {get_intel_hex_output(sections)} :
            HexAsClaimed(lines, [sections EXCEPT ![".bss"] = <<>>])

\* the sum of the bytes that the digits after the colon spell, two by two
RECURSIVE SumOfRecord(_, _)
SumOfRecord(line, k) ==
    IF k + 1 > Len(line) THEN 0 ELSE ByteAt(line, k) + SumOfRecord(line, k + 2)

\* length, address high, address low, type, data bytes and checksum of a
\* record add up to 0 modulo 256
ChecksumAsClaimed(line) ==
    /\ WellFormed(line)
    /\ SumOfRecord(line, 2) % 256 = 0
    /\ ByteAt(line, Len(line) - 1)
         = (256 - ((SumOfRecord(line, 2) - ByteAt(line, Len(line) - 1)) % 256)) % 256

\* C18: in every data record of the Intel HEX output the checksum byte is the
\* two's complement of the 8-bit sum of the length, the two address bytes,
\* the record type and the data bytes, so that all the bytes of the record
\* add up to 0 modulo 256
C18_HexChecksum ==
    Accepted =>
        \E lines \in {get_intel_hex_output(sections)} :
            \A k \in 1..(Len(lines) - 1) : ChecksumAsClaimed(lines[k])

\* the same for the sources whose sections end at or before 0xFFFF
C18_HexChecksumBelow64K ==
    Accepted /\ Len(sections[".text"]) <= 65504 /\ Len(sections[".data"]) <= 32768 =>
        \E lines \in {get_intel_hex_output(sections)} :
            \A k \in 1..(Len(lines) - 1) : ChecksumAsClaimed(lines[k])

\* C19: in every state every value in the symbol table is in 0..0xFFFF
C19_SymbolValues16Bit ==
    \A name \in DOMAIN symbols : symbols[name].value \in 0..65535

\* pass 1 is at ".equ NAME, REF" or ".set NAME, REF" with a name for REF
AtEquOfSymbol ==
    /\ pc = "pass1"
    /\ CurType(parser) = "DIRECTIVE"
    /\ Lower(tokens[parser.cur].value) \in {".equ", ".set"}
    /\ CurType(Advance(parser)) = "INSTRUCTION"
    /\ CurType(Advance(Advance(parser))) = "COMMA"
    /\ CurType(Advance(Advance(Advance(parser)))) = "INSTRUCTION"

EquName == tokens[Advance(parser).cur].value

EquRef == tokens[Advance(Advance(Advance(parser))).cur].value

UndefinedInEqu == {i \in 1..Len(errors) : errors[i].message = "undefined symbol in .equ"}

\* C20 as stated: ".equ NAME, REF" with REF not in the symbol table records
\* an error and leaves NAME with the value 0; with REF in the table NAME is
\* defined with the value of REF
C20_EquOfAbsentIsZero ==
    [][AtEquOfSymbol =>
          IF EquRef \notin DOMAIN symbols
          THEN /\ Len(errors') = Len(errors) + 1
               /\ EquName \in DOMAIN symbols'
               /\ symbols'[EquName].value = 0
          ELSE EquName \notin DOMAIN symbols =>
                   /\ EquName \in DOMAIN symbols'
                   /\ symbols'[EquName].value = symbols[EquRef].value]_vars

\* C20: ".equ NAME, REF" with REF not in the symbol table records one error
\* and leaves the symbol table as it was, NAME without a definition unless
\* it had one; with REF in the table and NAME not, NAME is defined with the
\* value of REF and no error is recorded
C20_EquOfAbsentDefinesNothing ==
    [][AtEquOfSymbol =>
          IF EquRef \notin DOMAIN symbols
          THEN /\ errors' = Append(errors, Error("undefined symbol in .equ",
                                                 tokens[parser.cur].line))
               /\ symbols' = symbols
          ELSE EquName \notin DOMAIN symbols =>
                   /\ EquName \in DOMAIN symbols'
                   /\ symbols'[EquName].value = symbols[EquRef].value
                   /\ errors' = errors]_vars

\* ".equ K, loop" has been assembled with no loop before it: the error is
\* recorded and K has no definition
C20_Witness ==
    /\ pc = "done"
    /\ \E l \in Lines :
           /\ Len(source[l].toks) = 4
           /\ source[l].toks[1] = Dir(".equ")
           /\ source[l].toks[2].value = "K"
           /\ source[l].toks[4].value = "loop"
           /\ \E i \in UndefinedInEqu : errors[i].line = l
    /\ "K" \notin DOMAIN symbols

\* C21: a source with a malformed numeric literal (a base prefix with no
\* digit after it) is tolerated: no exception of the lexer is recorded, the
\* token stream ends with EOF, and the instructions on the other lines are
\* sized in pass 1 and, when pass 2 runs, emitted
C21_MalformedNumberTolerated ==
    pc = "done" /\ LexerRaises(source) =>
        /\ \A i \in 1..Len(errors) : errors[i].message # "Internal assembler error"
        /\ tokens # <<>>
        /\ tokens[Len(tokens)].type = "EOF"
        /\ \A l \in Lines :
               ~source[l].raises /\ InstructionLine(l) =>
                   /\ obs.size1[l] > 0
                   /\ obs.pass2done => Emitted(l)

\* the token at index i is the first of its line or follows the label of
\* its line
BeginsStatement(i) == i = 1 \/ tokens[i - 1].type \in {"NEWLINE", "LABEL"}

\* line l is an li statement, after its label if it has one
LiStatement(l) == InstructionLine(l) /\ Lower(Unlabelled(l)[1].value) = "li"

\* C22: in pass 1 an li statement advances current_address by 2 or 4 in
\* total; the tokens that are handled as instructions are the ones that begin
\* a statement, never an operand of li; and the size of an li, with a literal
\* or with a symbol name, is the size pass 2 emits for it
C22_LiRewind ==
    /\ [][pc = "pass1" /\ CurType(parser) = "INSTRUCTION" => BeginsStatement(parser.cur)]_vars
    /\ [](\A l \in Lines :
              LiStatement(l) =>
                  /\ obs.size1[l] \in {0, 2, 4}
                  /\ obs.pass2done /\ ~obs.raised2[l] => obs.size1[l] = Len(obs.emit2[l]))

\* the same for li with a literal immediate: its operands are registers,
\* commas and immediates, which pass 1 passes over
C22_LiRewindOfLiterals ==
    /\ [][pc = "pass1" /\ CurType(parser) = "INSTRUCTION"
              /\ (\A l \in Lines : LiStatement(l) => LiLine(l))
           => BeginsStatement(parser.cur)]_vars
    /\ [](\A l \in Lines :
              LiLine(l) =>
                  /\ obs.size1[l] \in {0, 2, 4}
                  /\ obs.pass2done /\ ~obs.raised2[l] => obs.size1[l] = Len(obs.emit2[l]))

\* C23: pass 2 begins where pass 1 began, in .text at 0x0020, whatever
\* section pass 1 ended in, and a first statement that precedes every section
\* directive is processed at 0x0020 and appended to the .text buffer
C23_Pass2StartsInText ==
    /\ [][pc = "pass1" /\ pc' = "pass2" =>
              current_section' = ".text" /\ current_address' = 32]_vars
    /\ [][pc = "pass2" /\ parser.cur = 1 /\ CurType(parser) = "INSTRUCTION" =>
              /\ current_address = 32
              /\ sections'[".data"] = sections[".data"]
              /\ sections'[".bss"] = sections[".bss"]]_vars

\* pass 2 begins in the section pass 1 ended in, at the base of that section
C23_Pass2StartsWherePass1Ended ==
    [][pc = "pass1" /\ pc' = "pass2" =>
           /\ current_section' = current_section
           /\ current_address' = section_addresses[current_section]]_vars

\* tokenize() has returned, or has been left by an exception
LexerEnded == lexer.at \in {"done", "raised"}

\* C24: the lexer comes to an end on every text, also on a text with no
\* trailing newline that ends in a name, in a hex, binary or octal literal,
\* in a space, or inside a string or a block comment
C24_LexerTerminates == <>LexerEnded

\* the same for the texts that end with a newline, and for the texts that
\* end inside a string, a comment or a decimal number
C24_LexerTerminatesAfterNewline ==
    (\/ lexer.text # <<>> /\ lexer.text[Len(lexer.text)] = "\n"
     \/ \A i \in 1..Len(lexer.text) : lexer.text[i] \in {"\"", "#", "0", "1", "\n"})
        => <>LexerEnded

\* tokenize() returns a token list that ends with EOF
C24_EndsWithEof ==
    lexer.at = "done" => lexer.toks # <<>> /\ lexer.toks[Len(lexer.toks)] = "EOF"

\* the source has no .org directive
NoOrg ==
    \A l \in Lines : \A i \in 1..Len(source[l].toks) :
        ~(source[l].toks[i].type = "DIRECTIVE" /\ Lower(source[l].toks[i].value) = ".org")

\* C25: in pass 2 of a source with no .org and no encoding error, whenever
\* bytes are appended to the buffer of the current section, current_address
\* minus the base of the section is the length of the buffer before the
\* append, also after the source has left the section and entered it again
C25_AddressIsOffset ==
    [][pc = "pass2" /\ NoOrg /\ errors' = <<>>
           /\ sections'[current_section] # sections[current_section]
        => current_address - section_addresses[current_section]
             = Len(sections[current_section])]_vars

\* the source has none of the directives .text, .data, .bss either
NoSectionDirective ==
    \A l \in Lines : \A i \in 1..Len(source[l].toks) :
        ~(source[l].toks[i].type = "DIRECTIVE"
            /\ Lower(source[l].toks[i].value) \in {".text", ".data", ".bss"})

\* the same for the sources that never name a section
C25_AddressIsOffsetInOneSection ==
    [][pc = "pass2" /\ NoOrg /\ NoSectionDirective /\ errors' = <<>>
           /\ sections'[current_section] # sections[current_section]
        => current_address - section_addresses[current_section]
             = Len(sections[current_section])]_vars

\* line l is ".org A" with a literal A
OrgLine(l) ==
    /\ Len(source[l].toks) = 2
    /\ source[l].toks[1].type = "DIRECTIVE"
    /\ Lower(source[l].toks[1].value) = ".org"
    /\ source[l].toks[2].type = "IMMEDIATE"

\* the bytes pass 2 emitted for line l are in image from address on
PlacedAt(image, l, address) ==
    \A k \in 1..Len(obs.emit2[l]) :
        address + k <= Len(image) /\ image[address + k] = obs.emit2[l][k]

\* C26: the bytes emitted for the statement after ".org A" are emitted at
\* current_address A and are at offset A of the binary image
C26_OrgPlacesBytes ==
    Accepted =>
        \E image \in {get_binary_output(sections)} :
            \A l \in Lines :
                l > 1 /\ OrgLine(l - 1) /\ Emitted(l) =>
                    /\ obs.start2[l] = source[l - 1].toks[2].num
                    /\ PlacedAt(image, l, obs.start2[l])

\* what pass 2 does after ".org A": the statement is emitted at
\* current_address A
C26_OrgSetsAddress ==
    Accepted =>
        \A l \in Lines :
            l > 1 /\ OrgLine(l - 1) /\ Emitted(l) =>
                obs.start2[l] = source[l - 1].toks[2].num

\* C27: every word the encoder returns for an instruction of the source is
\* in 0..0xFFFF; an operand that is no register index in a register position
\* makes the encoder raise, so that the line is left with an error
C27_EncoderWord16 ==
    \A l \in Lines :
        InstructionLine(l) /\ Emitted(l) /\ ~obs.raised2[l] =>
            \A k \in 1..Len(WordsOfLine(l)) : WordsOfLine(l)[k] \in 0..65535

\* the same for the instructions whose operands are registers where the
\* format has registers
C27_EncoderWord16OfRegisters ==
    \A l \in Lines :
        InstructionLine(l) /\ Emitted(l) /\ ~obs.raised2[l]
            /\ source[l].toks # <<Ins("add"), Reg("t0"), Comma, Imm(-1)>> =>
                \A k \in 1..Len(WordsOfLine(l)) : WordsOfLine(l)[k] \in 0..65535

NoBytes == \A sec \in DOMAIN sections : sections[sec] = <<>>

\* C28: no step of pass 1 appends to a section buffer, and a pass 1 that has
\* recorded an error is followed by the return of False, not by pass 2, with
\* the three section buffers still empty
C28_Pass1AppendsNothing ==
    /\ [](pc \in {"start", "pass1"} => NoBytes)
    /\ [][pc = "pass1" => sections' = sections]_vars
    /\ [][pc = "pass1" /\ pc' # "pass1" /\ Len(errors) > 0 =>
              pc' = "done" /\ result' = "False" /\ NoBytes']_vars
    /\ [](pc = "done" /\ ~obs.pass2done => NoBytes)

\* assemble() has returned False after a pass 1 that sized a .word directive
\* and recorded an error; pass 2 has not run and no buffer holds a byte
C28_Witness ==
    /\ pc = "done"
    /\ result = "False"
    /\ tokens # <<>>
    /\ Len(errors) > 0
    /\ ~obs.pass2done
    /\ \E l \in Lines : WordLine(l) /\ obs.size1[l] = 4
    /\ NoBytes

\* file is the dense memory file of image: a header, then 32,768 lines, line
\* a/2 after the header holding image[a] | (image[a + 1] << 8) as four digits
MemoryFileAsClaimed(file, image) ==
    /\ ~file.raised
    /\ Len(file.lines) = 32768 + 1
    /\ Len(image) = 65536
    /\ \A w \in 0..32767 :
           IF image[2 * w + 1] = 0 /\ image[2 * w + 2] = 0
           THEN file.lines[w + 2] = <<"0", "0", "0", "0">>
           ELSE file.lines[w + 2] =
                    HexPadded(BitOr(image[2 * w + 1], Shl(image[2 * w + 2], 8)), 4)

\* C29: for every accepted source the dense memory file has exactly 32,768
\* word lines after its header, and for every even address a the word on line
\* a/2 equals image[a] | (image[a+1] << 8) of get_binary_output(), also when
\* a section has an odd number of bytes
C29_MemoryFileMatchesImage ==
    Accepted =>
        \E file \in {get_memory_file_output(sections)} :
            \E image \in {get_binary_output(sections)} :
                MemoryFileAsClaimed(file, image)

\* the same for the sources whose sections have an even number of bytes
C29_MemoryFileMatchesImageOfEvenSections ==
    Accepted /\ Len(sections[".text"]) % 2 = 0 /\ Len(sections[".data"]) % 2 = 0 =>
        \E file \in {get_memory_file_output(sections)} :
            \E image \in {get_binary_output(sections)} :
                MemoryFileAsClaimed(file, image)

\* a pass is at ".global NAME"
AtGlobal ==
    /\ pc \in {"pass1", "pass2"}
    /\ CurType(parser) = "DIRECTIVE"
    /\ Lower(tokens[parser.cur].value) = ".global"
    /\ CurType(Advance(parser)) = "INSTRUCTION"

\* the names of the ".global NAME" lines of the source
GlobalNames ==
    {source[l].toks[2].value :
        l \in {k \in Lines : /\ Len(source[k].toks) = 2
                             /\ source[k].toks[1].type = "DIRECTIVE"
                             /\ Lower(source[k].toks[1].value) = ".global"
                             /\ source[k].toks[2].type = "INSTRUCTION"}}

\* a step at ".global NAME" adds no symbol, removes none, and changes neither
\* the value nor the defined flag of any
GlobalKeepsValues ==
    AtGlobal =>
        /\ DOMAIN symbols' = DOMAIN symbols
        /\ \A n \in DOMAIN symbols :
               /\ symbols'[n].value = symbols[n].value
               /\ symbols'[n].defined = symbols[n].defined

\* C30: after a successful assemble every symbol named in a ".global NAME"
\* directive and defined in the source has its global flag set, whether the
\* directive comes before or after the definition; ".global" never changes
\* the value or the defined flag of a symbol
C30_GlobalMarksDefined ==
    /\ [](Accepted =>
            \A n \in GlobalNames :
                n \in DOMAIN symbols /\ symbols[n].defined => symbols[n].global_symbol)
    /\ [][GlobalKeepsValues]_vars

\* ".global" never changes the value or the defined flag of a symbol, and
\* sets the global flag of NAME when NAME is in the symbol table at that step
C30_GlobalMarksKnown ==
    [][/\ GlobalKeepsValues
       /\ AtGlobal /\ pc = "pass1" /\ tokens[Advance(parser).cur].value \in DOMAIN symbols =>
              symbols'[tokens[Advance(parser).cur].value].global_symbol]_vars

====
